---- MODULE Spec2Model ----
(***************************************************************************)
(* A model of the DLC manager of rust-dlc: the ChainMonitor                *)
(* (dlc-manager/src/chain_monitor.rs) and the Manager's contract and       *)
(* channel state machines with their reactor, periodic_check               *)
(* (dlc-manager/src/manager.rs).                                           *)
(*                                                                         *)
(* Handlers are pure operators from a manager state (a record of the       *)
(* store, the in-memory chain monitor, the persisted chain monitor and the *)
(* blockchain) and their inputs to a result record [s, res, msg, sent]:    *)
(* the state the call leaves behind, what it returned ("Ok", the name of   *)
(* the Error variant, or "Panic"), the message it answers with and the     *)
(* transactions it broadcast.  The actions apply them.                     *)
(*                                                                         *)
(* Abstractions.  Keys, signatures and transactions are symbolic: a        *)
(* transaction is identified with its txid, a record [ch, kind, idx]; an   *)
(* adaptor signature is the pair of its signer and the transaction it      *)
(* signs.  A contract or channel keeps one id over its life (the temporary *)
(* id and the id derived from the funding outpoint are identified).  The   *)
(* update index counts down from InitialUpdateIdx, which stands for        *)
(* 2^48 - 1.  The store never fails; wallet, signer and fee estimator      *)
(* never fail and the per-update secrets are always at hand; a broadcast   *)
(* may fail and the oracle may or may not have attested.                   *)
(***************************************************************************)
EXTENDS Integers, FiniteSets, Sequences, TLC

VARIABLES contracts, channels, chain_monitor, persisted_monitor, chain, pending

vars == <<contracts, channels, chain_monitor, persisted_monitor, chain, pending>>

(***************************************************************************)
(* Program constants and the bounds of the model.                          *)
(***************************************************************************)
NB_CONFIRMATIONS == 0
CET_NSEQUENCE == 288

\* How many channel updates (settle, renew) a behaviour may hold.
MaxUpdates == 2

\* The clock runs from 0 to MaxTime.
MaxTime == 2

\* The update index of a freshly signed channel (2^48 - 1 in the program).
InitialUpdateIdx == MaxUpdates

ChanIds == {"c1", "c2"}
ContractIds == {"k1", "k2"}
Peers == {"p1", "p2"}

\* The peers the node opens channels and contracts with; the others' messages
\* reach the handlers all the same.
CounterParties == {"p1"}

(***************************************************************************)
(* Finite maps (HashMap).                                                  *)
(***************************************************************************)
EmptyMap == [x \in {} |-> TRUE]

Put(f, k, v) == [x \in (DOMAIN f) \cup {k} |-> IF x = k THEN v ELSE f[x]]

Remove(f, k) == [x \in (DOMAIN f) \ {k} |-> f[x]]

Retain(f, Keep(_)) == [x \in {y \in DOMAIN f : Keep(f[y])} |-> f[x]]

(***************************************************************************)
(* Transactions, outpoints, signatures.                                    *)
(***************************************************************************)
Tx(c, kind, k) == [ch |-> c, kind |-> kind, idx |-> k]

NoTx == Tx("none", "none", 0)

OutPoint(txid, vout) == [txid |-> txid, vout |-> vout]

AdaptorSig(signer, tx) == [signer |-> signer, tx |-> tx]

(***************************************************************************)
(* chain_monitor.rs                                                        *)
(***************************************************************************)
BufferTx == [tag |-> "BufferTx"]
CollaborativeClose == [tag |-> "CollaborativeClose"]
SplitTx == [tag |-> "SplitTx"]
SettleTx == [tag |-> "SettleTx"]
Cet == [tag |-> "Cet"]
SettleTx2(is_offer) == [tag |-> "SettleTx2", is_offer |-> is_offer]

\* Revoked as a tag that takes every revoked transaction for a buffer
\* transaction.
RevokedAsBuffer(update_idx, own_adaptor_signature, is_offer, revoked_tx_type) ==
    [tag |-> "Revoked", update_idx |-> update_idx,
     own_adaptor_signature |-> own_adaptor_signature,
     is_offer |-> is_offer, revoked_tx_type |-> "Buffer"]

Revoked(update_idx, own_adaptor_signature, is_offer, revoked_tx_type) ==
    [tag |-> "Revoked", update_idx |-> update_idx,
     own_adaptor_signature |-> own_adaptor_signature,
     is_offer |-> is_offer, revoked_tx_type |-> revoked_tx_type]

ChannelInfo(channel_id, tx_type) == [channel_id |-> channel_id, tx_type |-> tx_type]

ChainMonitorNew(init_height) ==
    [watched_tx |-> EmptyMap, watched_txo |-> EmptyMap, last_height |-> init_height]

WatchStateNew(channel_info) ==
    [state |-> "Registered", channel_info |-> channel_info, transaction |-> NoTx]

\* WatchState::confirm as an assignment whatever the state.
WatchStateConfirm_again(ws, transaction) ==
    [state |-> "Confirmed", channel_info |-> ws.channel_info, transaction |-> transaction]

WatchStateConfirm(ws, transaction) ==
    IF ws.state = "Registered"
    THEN [state |-> "Confirmed", channel_info |-> ws.channel_info,
          transaction |-> transaction]
    ELSE ws

add_txo(m, outpoint, channel_info) ==
    [m EXCEPT !.watched_txo = Put(@, outpoint, WatchStateNew(channel_info))]

\* add_tx as an insertion that watches the transaction alone.
add_tx_no_txo(m, txid, channel_info) ==
    [m EXCEPT !.watched_tx = Put(@, txid, WatchStateNew(channel_info))]

\* add_tx as an insertion that keeps the entry a txid already has.
add_tx_if_absent(m, txid, channel_info) ==
    IF txid \in DOMAIN m.watched_tx THEN m
    ELSE LET m1 == [m EXCEPT !.watched_tx = Put(@, txid, WatchStateNew(channel_info))]
         IN  IF channel_info.tx_type = BufferTx
             THEN add_txo(m1, OutPoint(txid, 0),
                          ChannelInfo(channel_info.channel_id, Cet))
             ELSE m1

add_tx(m, txid, channel_info) ==
    LET m1 == [m EXCEPT !.watched_tx = Put(@, txid, WatchStateNew(channel_info))]
    IN  IF channel_info.tx_type = BufferTx
        THEN add_txo(m1, OutPoint(txid, 0),
                     ChannelInfo(channel_info.channel_id, Cet))
        ELSE m1

\* cleanup_channel as a sweep of the watched transactions only.
cleanup_channel_txs_only(m, channel_id) ==
    LET Keep(ws) == ws.channel_info.channel_id # channel_id
    IN  [m EXCEPT !.watched_tx = Retain(@, Keep)]

cleanup_channel(m, channel_id) ==
    LET Keep(ws) == ws.channel_info.channel_id # channel_id
    IN  [m EXCEPT !.watched_tx = Retain(@, Keep), !.watched_txo = Retain(@, Keep)]

\* remove_tx as a removal of the transaction and of its first output.
remove_tx_with_output(m, txid) ==
    [m EXCEPT !.watched_tx = Remove(@, txid), !.watched_txo = Remove(@, OutPoint(txid, 0))]

remove_tx(m, txid) == [m EXCEPT !.watched_tx = Remove(@, txid)]

get_watched_txs(m) == DOMAIN m.watched_tx

get_watched_txos(m) == DOMAIN m.watched_txo

\* confirm_tx as an insertion: a transaction that is not watched is entered
\* as a Confirmed buffer transaction of its channel.
confirm_tx_or_insert(m, tx) ==
    IF tx \in DOMAIN m.watched_tx
    THEN [m EXCEPT !.watched_tx[tx] = WatchStateConfirm(@, tx)]
    ELSE [m EXCEPT !.watched_tx =
             Put(@, tx, WatchStateConfirm(WatchStateNew(ChannelInfo(tx.ch, BufferTx)), tx))]

confirm_tx(m, tx) ==
    IF tx \in DOMAIN m.watched_tx
    THEN [m EXCEPT !.watched_tx[tx] = WatchStateConfirm(@, tx)]
    ELSE m

confirm_txo(m, txo, tx) ==
    IF txo \in DOMAIN m.watched_txo
    THEN [m EXCEPT !.watched_txo[txo] = WatchStateConfirm(@, tx)]
    ELSE m

\* The (transaction, channel_info) pairs of the Confirmed entries, as a set;
\* the reactor draws the order of the Vec, which is the HashMap's.
confirmed_txs(m) ==
    {[tx |-> m.watched_tx[t].transaction, channel_info |-> m.watched_tx[t].channel_info,
      txo |-> FALSE] :
        t \in {u \in DOMAIN m.watched_tx : m.watched_tx[u].state = "Confirmed"}}
    \cup
    {[tx |-> m.watched_txo[o].transaction, channel_info |-> m.watched_txo[o].channel_info,
      txo |-> TRUE] :
        o \in {u \in DOMAIN m.watched_txo : m.watched_txo[u].state = "Confirmed"}}

\* find_map over the entries tagged Revoked{Buffer} of the channel, as an
\* Option: {} is None, {b} is Some(b).  When the entries disagree the
\* iteration order of the map decides; pick is the answer it reaches first.
did_we_offer_last_channel_settlement(m, channel_id, pick) ==
    LET answers ==
            {m.watched_tx[t].channel_info.tx_type.is_offer :
                t \in {u \in DOMAIN m.watched_tx :
                         /\ m.watched_tx[u].channel_info.channel_id = channel_id
                         /\ m.watched_tx[u].channel_info.tx_type.tag = "Revoked"
                         /\ m.watched_tx[u].channel_info.tx_type.revoked_tx_type = "Buffer"}}
    IN  IF pick \in answers THEN {pick} ELSE answers

MonitorEntriesOf(m, channel_id) ==
    {t \in DOMAIN m.watched_tx : m.watched_tx[t].channel_info.channel_id = channel_id}
    \cup
    {o \in DOMAIN m.watched_txo : m.watched_txo[o].channel_info.channel_id = channel_id}

(***************************************************************************)
(* The store's entities.                                                   *)
(***************************************************************************)
NoContract == [state |-> "None"]

\* A Contract variant with what the handlers read of it: the counter party,
\* the channel it belongs to ("none" for an on-chain contract), whether we
\* offered it and, once PreClosed, the attestations it was closed with and
\* the CET seen or broadcast.
Contract(state, counter_party, channel_id, is_offer_party) ==
    [state |-> state, counter_party |-> counter_party, channel_id |-> channel_id,
     is_offer_party |-> is_offer_party, attestations |-> {}, signed_cet |-> NoTx]

WithState(contract, state) == [contract EXCEPT !.state = state]

PreClosed(contract, attestations, signed_cet) ==
    [contract EXCEPT !.state = "PreClosed", !.attestations = attestations,
                     !.signed_cet = signed_cet]

\* FailedAcceptContract and FailedSignContract: the contract with the message
\* that failed and the text of the error.
FailedContract(contract, state, message, error_message) ==
    [state |-> state, counter_party |-> contract.counter_party,
     channel_id |-> contract.channel_id, is_offer_party |-> contract.is_offer_party,
     message |-> message, error_message |-> error_message]

ContractTerminal == {"Closed", "Refunded", "FailedAccept", "FailedSign", "Rejected"}

NoChannel == [kind |-> "None"]

OfferedChannel(channel_id, counter_party, is_offer_party, offered_contract_id) ==
    [kind |-> "Offered", channel_id |-> channel_id, counter_party |-> counter_party,
     is_offer_party |-> is_offer_party, contract_id |-> offered_contract_id]

AcceptedChannel(channel_id, counter_party, accepted_contract_id) ==
    [kind |-> "Accepted", channel_id |-> channel_id, counter_party |-> counter_party,
     contract_id |-> accepted_contract_id]

NoState == [st |-> "None"]

SignedChannel(channel_id, counter_party, state, update_idx) ==
    [kind |-> "Signed", channel_id |-> channel_id, counter_party |-> counter_party,
     state |-> state, roll_back_state |-> NoState, update_idx |-> update_idx]

ClosedChannel(kind, sc, closing_txid) ==
    [kind |-> kind, channel_id |-> sc.channel_id, counter_party |-> sc.counter_party,
     closing_txid |-> closing_txid]

ClosedPunishedChannel(sc, punish_txid) ==
    [kind |-> "ClosedPunished", channel_id |-> sc.channel_id,
     counter_party |-> sc.counter_party, punish_txid |-> punish_txid]

SettledClosingChannel(sc, claim_transaction, is_closer) ==
    [kind |-> "SettledClosing", channel_id |-> sc.channel_id,
     counter_party |-> sc.counter_party, claim_transaction |-> claim_transaction,
     is_closer |-> is_closer]

FailedChannel(kind, channel_id, counter_party, message, error_message) ==
    [kind |-> kind, channel_id |-> channel_id, counter_party |-> counter_party,
     message |-> message, error_message |-> error_message]

ChannelTerminal == {"Closed", "CounterClosed", "ClosedPunished", "CollaborativelyClosed",
                    "Cancelled", "FailedAccept", "FailedSign"}

\* SignedChannelState
Established(buffer_transaction, signed_contract_id, is_offer) ==
    [st |-> "Established", buffer_transaction |-> buffer_transaction,
     own_buffer_adaptor_signature |-> AdaptorSig("own", buffer_transaction),
     counter_buffer_adaptor_signature |-> AdaptorSig("counter", buffer_transaction),
     signed_contract_id |-> signed_contract_id, is_offer |-> is_offer]

Settled(settle_tx) ==
    [st |-> "Settled", settle_tx |-> settle_tx,
     own_settle_adaptor_signature |-> AdaptorSig("own", settle_tx),
     counter_settle_adaptor_signature |-> AdaptorSig("counter", settle_tx)]

SettledOffered == [st |-> "SettledOffered"]

SettledReceived == [st |-> "SettledReceived"]

SettledAccepted(settle_tx) ==
    [st |-> "SettledAccepted", settle_tx |-> settle_tx,
     own_settle_adaptor_signature |-> AdaptorSig("own", settle_tx)]

SettledConfirmed(settle_tx) ==
    [st |-> "SettledConfirmed", settle_tx |-> settle_tx,
     own_settle_adaptor_signature |-> AdaptorSig("own", settle_tx),
     counter_settle_adaptor_signature |-> AdaptorSig("counter", settle_tx)]

RenewOffered(offered_contract_id, is_offer) ==
    [st |-> "RenewOffered", offered_contract_id |-> offered_contract_id,
     is_offer |-> is_offer]

RenewAccepted(contract_id, buffer_transaction) ==
    [st |-> "RenewAccepted", contract_id |-> contract_id,
     buffer_transaction |-> buffer_transaction]

RenewConfirmed(contract_id, buffer_transaction) ==
    [st |-> "RenewConfirmed", contract_id |-> contract_id,
     buffer_transaction |-> buffer_transaction]

RenewFinalized(contract_id, buffer_transaction) ==
    [st |-> "RenewFinalized", contract_id |-> contract_id,
     buffer_transaction |-> buffer_transaction,
     offer_buffer_adaptor_signature |-> AdaptorSig("counter", buffer_transaction)]

CollaborativeCloseOffered(close_tx, is_offer) ==
    [st |-> "CollaborativeCloseOffered", close_tx |-> close_tx, is_offer |-> is_offer]

Closing(buffer_transaction, contract_id, is_initiator) ==
    [st |-> "Closing", buffer_transaction |-> buffer_transaction,
     contract_id |-> contract_id, is_initiator |-> is_initiator]

SettledClosing(settle_transaction, is_offer, is_initiator) ==
    [st |-> "SettledClosing", settle_transaction |-> settle_transaction,
     is_offer |-> is_offer, is_initiator |-> is_initiator]

\* SignedChannel::get_contract_id: "none" stands for None.
get_contract_id(sc) ==
    CASE sc.state.st = "Established" -> sc.state.signed_contract_id
      [] sc.state.st = "RenewOffered" -> sc.state.offered_contract_id
      [] sc.state.st \in {"RenewAccepted", "RenewConfirmed", "RenewFinalized", "Closing"}
            -> sc.state.contract_id
      [] sc.state.st = "CollaborativeCloseOffered"
            /\ sc.roll_back_state.st = "Established"
            -> sc.roll_back_state.signed_contract_id
      [] OTHER -> "none"

(***************************************************************************)
(* The manager state a handler works on, and what a handler returns.       *)
(***************************************************************************)
State ==
    [contracts |-> contracts, channels |-> channels, mon |-> chain_monitor,
     pmon |-> persisted_monitor, chain |-> chain]

\* What a call leaves: the store, the monitor and the chain in s, what it
\* returns in res and msg, the transactions it broadcast in sent, and the
\* contracts whose funding inputs it handed to wallet.unreserve_utxos.
Result(s, res, msg, sent) ==
    [s |-> s, res |-> res, msg |-> msg, sent |-> sent, unreserved |-> {}]

Ok(s, msg, sent) == Result(s, "Ok", msg, sent)

Err(s, res) == Result(s, res, "None", {})

\* Storage
update_contract(s, id, contract) == [s EXCEPT !.contracts[id] = contract]

create_contract(s, id, contract) == [s EXCEPT !.contracts[id] = contract]

upsert_channel(s, id, channel) == [s EXCEPT !.channels[id] = channel]

persist_chain_monitor(s) == [s EXCEPT !.pmon = s.mon]

\* Blockchain
get_transaction_confirmations(s, tx) ==
    IF tx \in DOMAIN s.chain THEN s.chain[tx] ELSE 0

send_transaction(s, tx) ==
    IF tx \in DOMAIN s.chain THEN s ELSE [s EXCEPT !.chain = Put(@, tx, 0)]

\* A message of the handshakes as the handlers read it: its type, the id it
\* names and whether its signatures verify.
Message(type, id, valid) == [type |-> type, id |-> id, valid |-> valid]

\* e.to_string() and format!("... {e}"): the text as its pieces.
to_string(e) == <<e>>

format(prefix, e) == <<prefix>> \o to_string(e)

\* get_object_in_state!: "Ok", or the error the lookup returns.
get_object_in_state(objects, state_of, id, state, peer) ==
    IF id \notin DOMAIN objects \/ state_of[id] = "None" THEN "InvalidParameters"
    ELSE IF peer # "any" /\ objects[id].counter_party # peer THEN "InvalidParameters"
    ELSE IF state_of[id] # state THEN "InvalidState"
    ELSE "Ok"

get_contract_in_state(s, id, state, peer) ==
    get_object_in_state(s.contracts, [x \in DOMAIN s.contracts |-> s.contracts[x].state],
                        id, state, peer)

get_channel_in_state(s, id, kind, peer) ==
    get_object_in_state(s.channels, [x \in DOMAIN s.channels |-> s.channels[x].kind],
                        id, kind, peer)

(***************************************************************************)
(* On-chain contracts: the offer, accept, sign handshake.                  *)
(***************************************************************************)
FundTx(id) == Tx(id, "fund", 0)

ContractCet(id) == Tx(id, "cet", 0)

RefundTx(id) == Tx(id, "refund", 0)

\* A CET of the contract other than the one the attestations select.
RivalCet(id) == Tx(id, "rival_cet", 0)

\* The lock time of a refund transaction, in the unit of the clock.
lock_time(tx) == IF tx.ch = "k1" THEN 1 ELSE MaxTime

\* What the oracles attest for a contract.
Attestations(id) == {<<"attestation", id>>}

\* id is the fresh temporary id offer_contract draws.
send_offer(s, id, counter_party) ==
    Ok(create_contract(s, id, Contract("Offered", counter_party, "none", TRUE)),
       "Offer", {})

\* on_offer_message as a handler that stores the offer without a look at the
\* store.
on_offer_message_unchecked(s, id, counter_party) ==
    Ok(create_contract(s, id, Contract("Offered", counter_party, "none", FALSE)), "None", {})

on_offer_message(s, id, counter_party) ==
    IF s.contracts[id].state # "None" THEN Err(s, "InvalidParameters")
    ELSE Ok(create_contract(s, id, Contract("Offered", counter_party, "none", FALSE)),
            "None", {})

accept_contract_offer(s, contract_id) ==
    LET g == get_contract_in_state(s, contract_id, "Offered", "any")
    IN  IF g # "Ok" THEN Err(s, g)
        ELSE Ok(update_contract(s, contract_id,
                                WithState(s.contracts[contract_id], "Accepted")),
                "Accept", {})

\* accept_fail_on_error as a handler that passes the error on and stores
\* nothing.
accept_fail_on_error_unstored(s, offered_contract_id, accept_message, e) == Err(s, e)

accept_fail_on_error(s, offered_contract_id, accept_message, e) ==
    Err(update_contract(s, offered_contract_id,
            FailedContract(s.contracts[offered_contract_id], "FailedAccept",
                           accept_message, to_string(e))),
        e)

sign_fail_on_error(s, accepted_contract_id, sign_message, e) ==
    Err(update_contract(s, accepted_contract_id,
            FailedContract(s.contracts[accepted_contract_id], "FailedSign",
                           sign_message, to_string(e))),
        e)

\* valid: whether verify_accepted_and_sign_contract accepts the message.
on_accept_message(s, contract_id, counter_party, valid) ==
    LET g == get_contract_in_state(s, contract_id, "Offered", counter_party)
    IN  IF g # "Ok" THEN Err(s, g)
        ELSE IF ~valid
        THEN accept_fail_on_error(s, contract_id, Message("AcceptDlc", contract_id, valid),
                                  "InvalidArgument")
        ELSE Ok(update_contract(s, contract_id,
                                WithState(s.contracts[contract_id], "Signed")),
                "Sign", {})

\* on_sign_message as a handler that stores the contract and leaves the
\* broadcast out.
on_sign_message_unsent(s, contract_id, peer_id, valid, bfail) ==
    LET g == get_contract_in_state(s, contract_id, "Accepted", peer_id)
        s1 == update_contract(s, contract_id, WithState(s.contracts[contract_id], "Signed"))
    IN  IF g # "Ok" THEN Err(s, g)
        ELSE IF ~valid
        THEN sign_fail_on_error(s, contract_id, Message("SignDlc", contract_id, valid),
                                "InvalidArgument")
        ELSE Ok(s1, "None", {})

\* valid: whether verify_signed_contract accepts the message; bfail: whether
\* the broadcast of the fund transaction fails.
on_sign_message(s, contract_id, peer_id, valid, bfail) ==
    LET g == get_contract_in_state(s, contract_id, "Accepted", peer_id)
        s1 == update_contract(s, contract_id, WithState(s.contracts[contract_id], "Signed"))
    IN  IF g # "Ok" THEN Err(s, g)
        ELSE IF ~valid
        THEN sign_fail_on_error(s, contract_id, Message("SignDlc", contract_id, valid),
                                "InvalidArgument")
        ELSE IF bfail THEN Err(s1, "BlockchainError")
        ELSE Ok(send_transaction(s1, FundTx(contract_id)), "None", {FundTx(contract_id)})

(***************************************************************************)
(* Channel establishment.                                                  *)
(***************************************************************************)
BufferTxOf(channel_id, update_idx) == Tx(channel_id, "buffer", update_idx)

SettleTxOf(channel_id, update_idx) == Tx(channel_id, "settle", update_idx)

CloseTxOf(channel_id, update_idx) == Tx(channel_id, "close", update_idx)

CetOf(buffer_tx) == Tx(buffer_tx.ch, "cet", buffer_tx.idx)

PunishTxOf(revoked_tx) == Tx(revoked_tx.ch, "punish", revoked_tx.idx)

ClaimTxOf(settle_tx) == Tx(settle_tx.ch, "claim", settle_tx.idx)

\* channel_id and contract_id are the fresh temporary ids offer_channel draws.
offer_channel(s, channel_id, contract_id, counter_party) ==
    LET s1 == upsert_channel(s, channel_id,
                             OfferedChannel(channel_id, counter_party, TRUE, contract_id))
    IN  Ok(update_contract(s1, contract_id,
                           Contract("Offered", counter_party, channel_id, TRUE)),
           "OfferChannel", {})

reject_channel(s, channel_id) ==
    LET g == get_channel_in_state(s, channel_id, "Offered", "any")
        offered_channel == s.channels[channel_id]
        gc == get_contract_in_state(s, offered_channel.contract_id, "Offered", "any")
        s1 == upsert_channel(s, channel_id, [offered_channel EXCEPT !.kind = "Cancelled"])
    IN  IF g # "Ok" THEN Err(s, g)
        ELSE IF offered_channel.is_offer_party THEN Err(s, "InvalidState")
        ELSE IF gc # "Ok" THEN Err(s, gc)
        ELSE Ok(update_contract(s1, offered_channel.contract_id,
                    WithState(s.contracts[offered_channel.contract_id], "Rejected")),
                "Reject", {})

accept_channel(s, channel_id) ==
    LET g == get_channel_in_state(s, channel_id, "Offered", "any")
        offered_channel == s.channels[channel_id]
        gc == get_contract_in_state(s, offered_channel.contract_id, "Offered", "any")
        s1 == upsert_channel(s, channel_id,
                  AcceptedChannel(channel_id, offered_channel.counter_party,
                                  offered_channel.contract_id))
    IN  IF g # "Ok" THEN Err(s, g)
        ELSE IF offered_channel.is_offer_party THEN Err(s, "InvalidState")
        ELSE IF gc # "Ok" THEN Err(s, gc)
        ELSE Ok(update_contract(s1, offered_channel.contract_id,
                    WithState(s.contracts[offered_channel.contract_id], "Accepted")),
                "AcceptChannel", {})

\* channel_id and contract_id are the temporary ids the peer's message carries.
on_offer_channel(s, channel_id, contract_id, counter_party) ==
    IF s.channels[channel_id].kind # "None" THEN Err(s, "InvalidParameters")
    ELSE LET s1 == upsert_channel(s, channel_id,
                       OfferedChannel(channel_id, counter_party, FALSE, contract_id))
         IN  Ok(update_contract(s1, contract_id,
                                Contract("Offered", counter_party, channel_id, FALSE)),
                "None", {})

\* channel_updater: the signed channel a verified accept or sign message
\* yields, with its buffer transaction watched.
verify_and_sign_accepted_channel(s, offered_channel) ==
    LET buffer_transaction == BufferTxOf(offered_channel.channel_id, InitialUpdateIdx)
    IN  [channel |-> SignedChannel(offered_channel.channel_id, offered_channel.counter_party,
                         Established(buffer_transaction, offered_channel.contract_id, TRUE),
                         InitialUpdateIdx),
         s |-> [s EXCEPT !.mon = add_tx(@, buffer_transaction,
                                   ChannelInfo(offered_channel.channel_id, BufferTx))]]

verify_signed_channel(s, accepted_channel) ==
    LET buffer_transaction == BufferTxOf(accepted_channel.channel_id, InitialUpdateIdx)
    IN  [channel |-> SignedChannel(accepted_channel.channel_id, accepted_channel.counter_party,
                         Established(buffer_transaction, accepted_channel.contract_id, FALSE),
                         InitialUpdateIdx),
         s |-> [s EXCEPT !.mon = add_tx(@, buffer_transaction,
                                   ChannelInfo(accepted_channel.channel_id, BufferTx))]]

on_accept_channel(s, channel_id, peer_id, valid) ==
    LET g == get_channel_in_state(s, channel_id, "Offered", peer_id)
        offered_channel == s.channels[channel_id]
        gc == get_contract_in_state(s, offered_channel.contract_id, "Offered", peer_id)
        v == verify_and_sign_accepted_channel(s, offered_channel)
        s1 == upsert_channel(v.s, channel_id, v.channel)
        s2 == update_contract(s1, offered_channel.contract_id,
                  WithState(s.contracts[offered_channel.contract_id], "Signed"))
    IN  IF g # "Ok" THEN Err(s, g)
        ELSE IF gc # "Ok" THEN Err(s, gc)
        ELSE IF ~valid
        THEN Err(upsert_channel(s, channel_id,
                     FailedChannel("FailedAccept", channel_id, peer_id,
                         Message("AcceptChannel", channel_id, valid),
                         format("Error validating accept channel: ", "InvalidArgument"))),
                 "InvalidArgument")
        ELSE Ok(persist_chain_monitor(s2), "SignChannel", {})

on_sign_channel(s, channel_id, peer_id, valid, bfail) ==
    LET g == get_channel_in_state(s, channel_id, "Accepted", peer_id)
        accepted_channel == s.channels[channel_id]
        gc == get_contract_in_state(s, accepted_channel.contract_id, "Accepted", peer_id)
        v == verify_signed_channel(s, accepted_channel)
        s1 == [v.s EXCEPT !.mon = add_tx(@, v.channel.state.buffer_transaction,
                                         ChannelInfo(channel_id, BufferTx))]
        s2 == send_transaction(s1, FundTx(channel_id))
        s3 == upsert_channel(s2, channel_id, v.channel)
        s4 == update_contract(s3, accepted_channel.contract_id,
                  WithState(s.contracts[accepted_channel.contract_id], "Signed"))
    IN  IF g # "Ok" THEN Err(s, g)
        ELSE IF gc # "Ok" THEN Err(s, gc)
        ELSE IF ~valid
        THEN Err(upsert_channel(s, channel_id,
                     FailedChannel("FailedSign", channel_id, peer_id,
                         Message("SignChannel", channel_id, valid),
                         format("Error validating accept channel: ", "InvalidArgument"))),
                 "InvalidArgument")
        ELSE IF bfail THEN Err(s1, "BlockchainError")
        ELSE Ok(persist_chain_monitor(s4), "None", {FundTx(channel_id)})

(***************************************************************************)
(* channel_updater: the transitions of a signed channel.  fn names the     *)
(* function; the result says whether it succeeded, the channel it leaves   *)
(* and the transaction it asks the chain monitor to watch.                 *)
(***************************************************************************)
Swap(sc, state) == [sc EXCEPT !.state = state, !.roll_back_state = sc.state]

RollBack(sc) == [sc EXCEPT !.state = sc.roll_back_state, !.roll_back_state = NoState]

Advance(sc, state) ==
    [sc EXCEPT !.state = state, !.roll_back_state = NoState, !.update_idx = @ - 1]

channel_updater(fn, sc, arg) ==
    LET c == sc.channel_id
        st == sc.state.st
        next == sc.update_idx - 1
        Done(channel, watch) == [ok |-> TRUE, channel |-> channel, watch |-> watch]
        Fail == [ok |-> FALSE, channel |-> sc, watch |-> {}]
        Watch(txid, tx_type) == {[txid |-> txid, channel_info |-> ChannelInfo(c, tx_type)]}
    IN  CASE fn = "settle_channel_offer" ->
               IF st = "Established" THEN Done(Swap(sc, SettledOffered), {}) ELSE Fail
          [] fn = "on_settle_offer" ->
               IF st = "Established" THEN Done(Swap(sc, SettledReceived), {}) ELSE Fail
          [] fn = "settle_channel_accept_internal" ->
               IF st = "SettledReceived"
               THEN Done([sc EXCEPT !.state = SettledAccepted(SettleTxOf(c, next))],
                         Watch(SettleTxOf(c, next), SettleTx2(FALSE)))
               ELSE Fail
          [] fn = "settle_channel_confirm_internal" ->
               IF st = "SettledOffered" /\ arg
               THEN Done([sc EXCEPT !.state = SettledConfirmed(SettleTxOf(c, next))],
                         Watch(SettleTxOf(c, next), SettleTx2(TRUE)))
               ELSE Fail
          [] fn = "settle_channel_finalize_internal" ->
               IF st = "SettledAccepted" /\ arg
               THEN Done(Advance(sc, Settled(sc.state.settle_tx)), {})
               ELSE Fail
          [] fn = "settle_channel_on_finalize" ->
               IF st = "SettledConfirmed" /\ arg
               THEN Done(Advance(sc, Settled(sc.state.settle_tx)), {})
               ELSE Fail
          [] fn = "reject_settle_offer" ->
               IF st = "SettledReceived" THEN Done(RollBack(sc), {}) ELSE Fail
          [] fn = "renew_offer" ->
               IF st \in {"Settled", "Established"}
               THEN Done(Swap(sc, RenewOffered(arg, TRUE)), {})
               ELSE Fail
          [] fn = "on_renew_offer" ->
               IF st \in {"Settled", "Established"}
               THEN Done(Swap(sc, RenewOffered(arg, FALSE)), {})
               ELSE Fail
          [] fn = "accept_channel_renewal_internal" ->
               IF st = "RenewOffered" /\ ~sc.state.is_offer
               THEN Done([sc EXCEPT !.state =
                             RenewAccepted(sc.state.offered_contract_id, BufferTxOf(c, next))],
                         {})
               ELSE Fail
          [] fn = "verify_renew_accept_and_confirm_internal" ->
               IF st = "RenewOffered" /\ sc.state.is_offer /\ arg
               THEN Done([sc EXCEPT !.state =
                             RenewConfirmed(sc.state.offered_contract_id, BufferTxOf(c, next))],
                         {})
               ELSE Fail
          [] fn = "verify_renew_confirm_and_finalize_internal" ->
               IF st = "RenewAccepted" /\ arg
               THEN Done([sc EXCEPT !.state =
                             RenewFinalized(sc.state.contract_id, sc.state.buffer_transaction)],
                         Watch(sc.state.buffer_transaction, BufferTx))
               ELSE Fail
          [] fn = "renew_channel_on_finalize" ->
               IF st = "RenewConfirmed" /\ arg
               THEN Done(Advance(sc, Established(sc.state.buffer_transaction,
                                                 sc.state.contract_id, TRUE)), {})
               ELSE Fail
          [] fn = "renew_channel_on_revoke" ->
               IF st = "RenewFinalized" /\ arg
               THEN Done(Advance(sc, Established(sc.state.buffer_transaction,
                                                 sc.state.contract_id, FALSE)), {})
               ELSE Fail
          [] fn = "reject_renew_offer" ->
               IF st = "RenewOffered" /\ ~sc.state.is_offer
               THEN Done(RollBack(sc), {}) ELSE Fail
          [] fn = "on_reject" ->
               IF st \in {"SettledOffered", "RenewOffered"}
               THEN Done(RollBack(sc), {}) ELSE Fail
          [] fn = "offer_collaborative_close" ->
               IF st \in {"Settled", "Established"}
               THEN Done(Swap(sc, CollaborativeCloseOffered(CloseTxOf(c, sc.update_idx), TRUE)),
                         {})
               ELSE Fail
          [] fn = "on_collaborative_close_offer" ->
               IF st \in {"Settled", "Established"}
               THEN Done(Swap(sc, CollaborativeCloseOffered(CloseTxOf(c, sc.update_idx), FALSE)),
                         {})
               ELSE Fail
          [] fn = "accept_collaborative_close_offer" ->
               IF st = "CollaborativeCloseOffered" /\ ~sc.state.is_offer
               THEN Done(ClosedChannel("CollaborativelyClosed", sc, sc.state.close_tx), {})
               ELSE Fail
          [] fn = "initiate_unilateral_close_established_channel" ->
               IF get_contract_id(sc) # "none"
               THEN Done(Swap(sc, Closing(arg.buffer_transaction, get_contract_id(sc),
                                          arg.is_initiator)), {})
               ELSE Fail
          [] fn = "initiate_unilateral_close_settled_channel" ->
               IF st = "Settled"
               THEN Done(Swap(sc, SettledClosing(sc.state.settle_tx, arg.is_offer,
                                                 arg.is_initiator)), {})
               ELSE Fail
          [] fn = "finalize_unilateral_close_established_channel" ->
               IF st = "Closing"
               THEN Done(ClosedChannel(IF sc.state.is_initiator THEN "Closed"
                                       ELSE "CounterClosed",
                                       sc, sc.state.buffer_transaction), {})
               ELSE Fail
          [] fn = "finalize_unilateral_close_settled_channel" ->
               IF st = "SettledClosing"
               THEN Done(SettledClosingChannel(sc, ClaimTxOf(sc.state.settle_transaction),
                                               sc.state.is_initiator), {})
               ELSE Fail

\* The chain monitor after the updater's registrations.
Watched(m, watch) ==
    IF watch = {} THEN m
    ELSE LET w == CHOOSE x \in watch : TRUE IN add_tx(m, w.txid, w.channel_info)

(***************************************************************************)
(* Settle.                                                                 *)
(***************************************************************************)
get_collaboratively_closed_contract(s, contract_id) ==
    get_contract_in_state(s, contract_id, "Confirmed", "any")

settle_offer(s, channel_id) ==
    LET g == get_channel_in_state(s, channel_id, "Signed", "any")
        u == channel_updater("settle_channel_offer", s.channels[channel_id], TRUE)
    IN  IF g # "Ok" THEN Err(s, g)
        ELSE IF ~u.ok THEN Err(s, "InvalidState")
        ELSE Ok(upsert_channel(s, channel_id, u.channel), "SettleOffer", {})

accept_settle_offer(s, channel_id) ==
    LET g == get_channel_in_state(s, channel_id, "Signed", "any")
        u == channel_updater("settle_channel_accept_internal", s.channels[channel_id], TRUE)
        s1 == [s EXCEPT !.mon = Watched(@, u.watch)]
    IN  IF g # "Ok" THEN Err(s, g)
        ELSE IF ~u.ok THEN Err(s, "InvalidState")
        ELSE Ok(upsert_channel(s1, channel_id, u.channel), "SettleAccept", {})

reject_settle_offer(s, channel_id) ==
    LET g == get_channel_in_state(s, channel_id, "Signed", "any")
        u == channel_updater("reject_settle_offer", s.channels[channel_id], TRUE)
    IN  IF g # "Ok" THEN Err(s, g)
        ELSE IF ~u.ok THEN Err(s, "InvalidState")
        ELSE Ok(upsert_channel(s, channel_id, u.channel), "Reject", {})

\* on_settle_offer as a handler that hands every offer to the updater.
on_settle_offer_unguarded(s, channel_id, peer_id) ==
    LET g == get_channel_in_state(s, channel_id, "Signed", peer_id)
        u == channel_updater("on_settle_offer", s.channels[channel_id], TRUE)
    IN  IF g # "Ok" THEN Err(s, g)
        ELSE IF ~u.ok THEN Err(s, "InvalidState")
        ELSE Ok(upsert_channel(s, channel_id, u.channel), "None", {})

on_settle_offer(s, channel_id, peer_id) ==
    LET g == get_channel_in_state(s, channel_id, "Signed", peer_id)
        u == channel_updater("on_settle_offer", s.channels[channel_id], TRUE)
    IN  IF g # "Ok" THEN Err(s, g)
        ELSE IF s.channels[channel_id].state.st = "SettledOffered" THEN Ok(s, "Reject", {})
        ELSE IF ~u.ok THEN Err(s, "InvalidState")
        ELSE Ok(upsert_channel(s, channel_id, u.channel), "None", {})

on_settle_accept(s, channel_id, peer_id, valid) ==
    LET g == get_channel_in_state(s, channel_id, "Signed", peer_id)
        u == channel_updater("settle_channel_confirm_internal", s.channels[channel_id], valid)
        s1 == [s EXCEPT !.mon = Watched(@, u.watch)]
    IN  IF g # "Ok" THEN Err(s, g)
        ELSE IF ~u.ok THEN Err(s, "InvalidState")
        ELSE Ok(upsert_channel(s1, channel_id, u.channel), "SettleConfirm", {})

\* SettleComplete as a registration of the index below the channel's.
SettleCompleteIndexBelow(s, channel_id, peer_id, valid, expected, fn, msg) ==
    LET g == get_channel_in_state(s, channel_id, "Signed", peer_id)
        signed_channel == s.channels[channel_id]
        rb == signed_channel.roll_back_state
        u == channel_updater(fn, signed_channel, valid)
        s1 == [s EXCEPT !.mon =
                  add_tx(@, rb.buffer_transaction,
                         ChannelInfo(channel_id,
                             Revoked(u.channel.update_idx - 1,
                                     rb.own_buffer_adaptor_signature, rb.is_offer,
                                     "Buffer")))]
        gc == get_collaboratively_closed_contract(s1, rb.signed_contract_id)
        s2 == upsert_channel(s1, channel_id, u.channel)
        s3 == update_contract(s2, rb.signed_contract_id,
                              WithState(s.contracts[rb.signed_contract_id], "Closed"))
    IN  IF g # "Ok" THEN Err(s, g)
        ELSE IF signed_channel.state.st # expected THEN Err(s, "InvalidState")
        ELSE IF rb.st # "Established" THEN Err(s, "InvalidState")
        ELSE IF ~u.ok THEN Err(s, "InvalidState")
        ELSE IF gc # "Ok" THEN Err(s1, gc)
        ELSE Ok(persist_chain_monitor(s3), msg, {})

\* on_settle_confirm and on_settle_finalize differ in the sub-state they
\* expect and the updater function they call.
SettleComplete(s, channel_id, peer_id, valid, expected, fn, msg) ==
    LET g == get_channel_in_state(s, channel_id, "Signed", peer_id)
        signed_channel == s.channels[channel_id]
        rb == signed_channel.roll_back_state
        u == channel_updater(fn, signed_channel, valid)
        s1 == [s EXCEPT !.mon =
                  add_tx(@, rb.buffer_transaction,
                         ChannelInfo(channel_id,
                             Revoked(u.channel.update_idx + 1,
                                     rb.own_buffer_adaptor_signature, rb.is_offer,
                                     "Buffer")))]
        gc == get_collaboratively_closed_contract(s1, rb.signed_contract_id)
        s2 == upsert_channel(s1, channel_id, u.channel)
        s3 == update_contract(s2, rb.signed_contract_id,
                              WithState(s.contracts[rb.signed_contract_id], "Closed"))
    IN  IF g # "Ok" THEN Err(s, g)
        ELSE IF signed_channel.state.st # expected THEN Err(s, "InvalidState")
        ELSE IF rb.st # "Established" THEN Err(s, "InvalidState")
        ELSE IF ~u.ok THEN Err(s, "InvalidState")
        ELSE IF gc # "Ok" THEN Err(s1, gc)
        ELSE Ok(persist_chain_monitor(s3), msg, {})

on_settle_confirm(s, channel_id, peer_id, valid) ==
    SettleComplete(s, channel_id, peer_id, valid, "SettledAccepted",
                   "settle_channel_finalize_internal", "SettleFinalize")

on_settle_finalize(s, channel_id, peer_id, valid) ==
    SettleComplete(s, channel_id, peer_id, valid, "SettledConfirmed",
                   "settle_channel_on_finalize", "None")

(***************************************************************************)
(* Renew.                                                                  *)
(***************************************************************************)
\* contract_id is the fresh temporary id of the contract renew_offer builds.
renew_offer(s, channel_id, contract_id) ==
    LET g == get_channel_in_state(s, channel_id, "Signed", "any")
        signed_channel == s.channels[channel_id]
        u == channel_updater("renew_offer", signed_channel, contract_id)
        s1 == upsert_channel(s, channel_id, u.channel)
    IN  IF g # "Ok" THEN Err(s, g)
        ELSE IF ~u.ok THEN Err(s, "InvalidState")
        ELSE Ok(update_contract(s1, contract_id,
                    Contract("Offered", signed_channel.counter_party, channel_id, TRUE)),
                "RenewOffer", {})

accept_renew_offer(s, channel_id) ==
    LET g == get_channel_in_state(s, channel_id, "Signed", "any")
        signed_channel == s.channels[channel_id]
        offered_contract_id == get_contract_id(signed_channel)
        gc == get_contract_in_state(s, offered_contract_id, "Offered", "any")
        u == channel_updater("accept_channel_renewal_internal", signed_channel, TRUE)
        s1 == upsert_channel(s, channel_id, u.channel)
    IN  IF g # "Ok" THEN Err(s, g)
        ELSE IF offered_contract_id = "none" THEN Err(s, "InvalidState")
        ELSE IF gc # "Ok" THEN Err(s, gc)
        ELSE IF ~u.ok THEN Err(s, "InvalidState")
        ELSE Ok(update_contract(s1, offered_contract_id,
                    WithState(s.contracts[offered_contract_id], "Accepted")),
                "RenewAccept", {})

reject_renew_offer(s, channel_id) ==
    LET g == get_channel_in_state(s, channel_id, "Signed", "any")
        signed_channel == s.channels[channel_id]
        offered_contract_id == get_contract_id(signed_channel)
        gc == get_contract_in_state(s, offered_contract_id, "Offered", "any")
        u == channel_updater("reject_renew_offer", signed_channel, TRUE)
        s1 == upsert_channel(s, channel_id, u.channel)
    IN  IF g # "Ok" THEN Err(s, g)
        ELSE IF offered_contract_id = "none" THEN Err(s, "InvalidState")
        ELSE IF gc # "Ok" THEN Err(s, gc)
        ELSE IF ~u.ok THEN Err(s, "InvalidState")
        ELSE Ok(update_contract(s1, offered_contract_id,
                    WithState(s.contracts[offered_contract_id], "Rejected")),
                "Reject", {})

\* contract_id is the temporary contract id the peer's RenewOffer carries.
\* on_renew_offer as a handler that rejects only after it stored the offered
\* contract.
on_renew_offer_stored(s, channel_id, contract_id, peer_id) ==
    LET g == get_channel_in_state(s, channel_id, "Signed", peer_id)
        signed_channel == s.channels[channel_id]
        u == channel_updater("on_renew_offer", signed_channel, contract_id)
        s1 == create_contract(s, contract_id,
                              Contract("Offered", peer_id, channel_id, FALSE))
    IN  IF g # "Ok" THEN Err(s, g)
        ELSE IF signed_channel.state.st = "RenewOffered" /\ signed_channel.state.is_offer
        THEN Ok(s1, "Reject", {})
        ELSE IF ~u.ok THEN Err(s, "InvalidState")
        ELSE Ok(upsert_channel(s1, channel_id, u.channel), "None", {})

on_renew_offer(s, channel_id, contract_id, peer_id) ==
    LET g == get_channel_in_state(s, channel_id, "Signed", peer_id)
        signed_channel == s.channels[channel_id]
        u == channel_updater("on_renew_offer", signed_channel, contract_id)
        s1 == create_contract(s, contract_id,
                              Contract("Offered", peer_id, channel_id, FALSE))
    IN  IF g # "Ok" THEN Err(s, g)
        ELSE IF signed_channel.state.st = "RenewOffered" /\ signed_channel.state.is_offer
        THEN Ok(s, "Reject", {})
        ELSE IF ~u.ok THEN Err(s, "InvalidState")
        ELSE Ok(upsert_channel(s1, channel_id, u.channel), "None", {})

on_renew_accept(s, channel_id, peer_id, valid) ==
    LET g == get_channel_in_state(s, channel_id, "Signed", peer_id)
        signed_channel == s.channels[channel_id]
        offered_contract_id == get_contract_id(signed_channel)
        gc == get_contract_in_state(s, offered_contract_id, "Offered", peer_id)
        u == channel_updater("verify_renew_accept_and_confirm_internal", signed_channel,
                             valid)
        s1 == upsert_channel(s, channel_id, u.channel)
    IN  IF g # "Ok" THEN Err(s, g)
        ELSE IF offered_contract_id = "none" THEN Err(s, "InvalidState")
        ELSE IF gc # "Ok" THEN Err(s, gc)
        ELSE IF ~u.ok THEN Err(s, "InvalidState")
        ELSE Ok(update_contract(s1, offered_contract_id,
                    WithState(s.contracts[offered_contract_id], "Confirmed")),
                "RenewConfirm", {})

\* What on_renew_confirm and on_renew_finalize derive from the roll-back
\* state: the tag and txid of the revoked transaction and the contract to
\* close ("none" when the channel was settled).
RenewRevocation(s, signed_channel) ==
    LET rb == signed_channel.roll_back_state
    IN  CASE rb.st = "None" -> [res |-> "Panic"]
          [] rb.st = "Established" ->
               [res |-> get_collaboratively_closed_contract(s, rb.signed_contract_id),
                tx_type |-> Revoked(signed_channel.update_idx,
                                    rb.own_buffer_adaptor_signature, FALSE, "Buffer"),
                prev_tx_id |-> rb.buffer_transaction,
                closed_contract |-> rb.signed_contract_id]
          [] rb.st = "Settled" ->
               [res |-> "Ok",
                tx_type |-> Revoked(signed_channel.update_idx,
                                    rb.own_settle_adaptor_signature, FALSE, "Settle"),
                prev_tx_id |-> rb.settle_tx,
                closed_contract |-> "none"]
          [] OTHER -> [res |-> "InvalidState"]

CloseContract(s, closed_contract) ==
    IF closed_contract = "none" THEN s
    ELSE update_contract(s, closed_contract, WithState(s.contracts[closed_contract], "Closed"))

on_renew_confirm(s, channel_id, peer_id, valid) ==
    LET g == get_channel_in_state(s, channel_id, "Signed", peer_id)
        signed_channel == s.channels[channel_id]
        contract_id == get_contract_id(signed_channel)
        rv == RenewRevocation(s, signed_channel)
        gc == get_contract_in_state(s, contract_id, "Accepted", peer_id)
        u == channel_updater("verify_renew_confirm_and_finalize_internal", signed_channel,
                             valid)
        s1 == [s EXCEPT !.mon = add_tx(Watched(@, u.watch), rv.prev_tx_id,
                                       ChannelInfo(channel_id, rv.tx_type))]
        s2 == upsert_channel(s1, channel_id, u.channel)
        s3 == update_contract(s2, contract_id, WithState(s.contracts[contract_id], "Confirmed"))
    IN  IF g # "Ok" THEN Err(s, g)
        ELSE IF signed_channel.state.st # "RenewAccepted" THEN Err(s, "InvalidState")
        ELSE IF rv.res # "Ok" THEN Err(s, rv.res)
        ELSE IF gc # "Ok" THEN Err(s, gc)
        ELSE IF ~u.ok THEN Err(s, "InvalidState")
        ELSE Ok(CloseContract(persist_chain_monitor(s3), rv.closed_contract),
                "RenewFinalize", {})

on_renew_finalize(s, channel_id, peer_id, valid) ==
    LET g == get_channel_in_state(s, channel_id, "Signed", peer_id)
        signed_channel == s.channels[channel_id]
        rv == RenewRevocation(s, signed_channel)
        u == channel_updater("renew_channel_on_finalize", signed_channel, valid)
        m1 == add_tx(s.mon, rv.prev_tx_id, ChannelInfo(channel_id, rv.tx_type))
        m2 == add_tx(m1, u.channel.state.buffer_transaction,
                     ChannelInfo(channel_id, BufferTx))
        s1 == upsert_channel([s EXCEPT !.mon = m2], channel_id, u.channel)
    IN  IF g # "Ok" THEN Err(s, g)
        ELSE IF signed_channel.state.st # "RenewConfirmed" THEN Err(s, "InvalidState")
        ELSE IF rv.res # "Ok" THEN Err(s, rv.res)
        ELSE IF ~u.ok THEN Err(s, "InvalidState")
        ELSE Ok(CloseContract(persist_chain_monitor(s1), rv.closed_contract),
                "RenewRevoke", {})

on_renew_revoke(s, channel_id, peer_id, valid) ==
    LET g == get_channel_in_state(s, channel_id, "Signed", peer_id)
        u == channel_updater("renew_channel_on_revoke", s.channels[channel_id], valid)
    IN  IF g # "Ok" THEN Err(s, g)
        ELSE IF ~u.ok THEN Err(s, "InvalidState")
        ELSE Ok(upsert_channel(s, channel_id, u.channel), "None", {})

(***************************************************************************)
(* Collaborative close and reject.                                         *)
(***************************************************************************)
offer_collaborative_close(s, channel_id) ==
    LET g == get_channel_in_state(s, channel_id, "Signed", "any")
        u == channel_updater("offer_collaborative_close", s.channels[channel_id], TRUE)
        s1 == [s EXCEPT !.mon = add_tx(@, u.channel.state.close_tx,
                                       ChannelInfo(channel_id, CollaborativeClose))]
    IN  IF g # "Ok" THEN Err(s, g)
        ELSE IF ~u.ok THEN Err(s, "InvalidState")
        ELSE Ok(persist_chain_monitor(upsert_channel(s1, channel_id, u.channel)),
                "CollaborativeCloseOffer", {})

accept_collaborative_close(s, channel_id, bfail) ==
    LET g == get_channel_in_state(s, channel_id, "Signed", "any")
        signed_channel == s.channels[channel_id]
        rb == signed_channel.roll_back_state
        closed_contract == IF rb.st = "Established" THEN rb.signed_contract_id ELSE "none"
        gc == IF closed_contract = "none" THEN "Ok"
              ELSE IF signed_channel.state.st # "CollaborativeCloseOffered"
              THEN "InvalidState"
              ELSE get_collaboratively_closed_contract(s, closed_contract)
        u == channel_updater("accept_collaborative_close_offer", signed_channel, TRUE)
        s1 == send_transaction(s, u.channel.closing_txid)
        s2 == upsert_channel(s1, channel_id, u.channel)
    IN  IF g # "Ok" THEN Err(s, g)
        ELSE IF gc # "Ok" THEN Err(s, gc)
        ELSE IF ~u.ok THEN Err(s, "InvalidState")
        ELSE IF bfail THEN Err(s, "BlockchainError")
        ELSE Ok(CloseContract(s2, closed_contract), "None", {u.channel.closing_txid})

on_collaborative_close_offer(s, channel_id, peer_id) ==
    LET g == get_channel_in_state(s, channel_id, "Signed", peer_id)
        u == channel_updater("on_collaborative_close_offer", s.channels[channel_id], TRUE)
    IN  IF g # "Ok" THEN Err(s, g)
        ELSE IF ~u.ok THEN Err(s, "InvalidState")
        ELSE Ok(upsert_channel(s, channel_id, u.channel), "None", {})

\* on_reject as a handler that writes the channel only.
on_reject_channel_only(s, channel_id, counter_party) ==
    LET channel == s.channels[channel_id]
        u == channel_updater("on_reject", channel, TRUE)
    IN  IF channel.kind = "None" THEN Ok(s, "None", {})
        ELSE IF channel.counter_party # counter_party THEN Err(s, "InvalidParameters")
        ELSE IF channel.kind = "Offered"
        THEN Ok(upsert_channel(s, channel_id, [channel EXCEPT !.kind = "Cancelled"]),
                "None", {})
        ELSE IF channel.kind = "Signed"
        THEN IF ~u.ok THEN Err(s, "InvalidState")
             ELSE Ok(upsert_channel(s, channel_id, u.channel), "None", {})
        ELSE Err(s, "InvalidState")

\* on_reject as a handler that takes a Reject from any sender.
on_reject_any_sender(s, channel_id, counter_party) ==
    LET channel == s.channels[channel_id]
        offered == get_contract_in_state(s, channel.contract_id, "Offered", "any")
        renew == channel.state.st = "RenewOffered"
        gc == IF renew
              THEN get_contract_in_state(s, channel.state.offered_contract_id, "Offered", "any")
              ELSE "Ok"
        u == channel_updater("on_reject", channel, TRUE)
        s1 == upsert_channel(s, channel_id, u.channel)
    IN  IF channel.kind = "None" THEN Ok(s, "None", {})
        ELSE IF channel.kind = "Offered"
        THEN IF offered # "Ok" THEN Err(s, offered)
             ELSE [Ok(update_contract(
                         upsert_channel(s, channel_id, [channel EXCEPT !.kind = "Cancelled"]),
                         channel.contract_id,
                         WithState(s.contracts[channel.contract_id], "Rejected")),
                      "None", {})
                   EXCEPT !.unreserved = {channel.contract_id}]
        ELSE IF channel.kind = "Signed"
        THEN IF gc # "Ok" THEN Err(s, gc)
             ELSE IF ~u.ok THEN Err(s, "InvalidState")
             ELSE IF renew
             THEN Ok(update_contract(s1, channel.state.offered_contract_id,
                         WithState(s.contracts[channel.state.offered_contract_id],
                                   "Rejected")),
                     "None", {})
             ELSE Ok(s1, "None", {})
        ELSE Err(s, "InvalidState")

on_reject(s, channel_id, counter_party) ==
    LET channel == s.channels[channel_id]
        offered == get_contract_in_state(s, channel.contract_id, "Offered", "any")
        renew == channel.state.st = "RenewOffered"
        gc == IF renew
              THEN get_contract_in_state(s, channel.state.offered_contract_id, "Offered", "any")
              ELSE "Ok"
        u == channel_updater("on_reject", channel, TRUE)
        s1 == upsert_channel(s, channel_id, u.channel)
    IN  IF channel.kind = "None" THEN Ok(s, "None", {})
        ELSE IF channel.counter_party # counter_party THEN Err(s, "InvalidParameters")
        ELSE IF channel.kind = "Offered"
        THEN IF offered # "Ok" THEN Err(s, offered)
             ELSE [Ok(update_contract(
                         upsert_channel(s, channel_id, [channel EXCEPT !.kind = "Cancelled"]),
                         channel.contract_id,
                         WithState(s.contracts[channel.contract_id], "Rejected")),
                      "None", {})
                   EXCEPT !.unreserved = {channel.contract_id}]
        ELSE IF channel.kind = "Signed"
        THEN IF gc # "Ok" THEN Err(s, gc)
             ELSE IF ~u.ok THEN Err(s, "InvalidState")
             ELSE IF renew
             THEN Ok(update_contract(s1, channel.state.offered_contract_id,
                         WithState(s.contracts[channel.state.offered_contract_id],
                                   "Rejected")),
                     "None", {})
             ELSE Ok(s1, "None", {})
        ELSE Err(s, "InvalidState")

(***************************************************************************)
(* Force close.                                                            *)
(***************************************************************************)
initiate_unilateral_close_established_channel(s, signed_channel, is_initiator, buffer_transaction, bfail) ==
    LET channel_id == signed_channel.channel_id
        u == channel_updater("initiate_unilateral_close_established_channel",
                 signed_channel,
                 [buffer_transaction |-> buffer_transaction, is_initiator |-> is_initiator])
        send == get_transaction_confirmations(s, buffer_transaction) = 0
        s1 == IF send THEN send_transaction(s, buffer_transaction) ELSE s
        s2 == [s1 EXCEPT !.mon = remove_tx(@, buffer_transaction)]
    IN  IF ~u.ok THEN Err(s, "InvalidState")
        ELSE IF send /\ bfail THEN Err(s, "BlockchainError")
        ELSE Ok(persist_chain_monitor(upsert_channel(s2, channel_id, u.channel)), "None",
                IF send THEN {buffer_transaction} ELSE {})

initiate_unilateral_close_settled_channel(s, signed_channel, is_initiator, bfail, pick) ==
    LET channel_id == signed_channel.channel_id
        is_settle_offer == did_we_offer_last_channel_settlement(s.mon, channel_id, pick)
        u == channel_updater("initiate_unilateral_close_settled_channel", signed_channel,
                 [is_offer |-> CHOOSE b \in is_settle_offer : TRUE,
                  is_initiator |-> is_initiator])
        settle_tx == u.channel.state.settle_transaction
        send == get_transaction_confirmations(s, settle_tx) = 0
        s1 == IF send THEN send_transaction(s, settle_tx) ELSE s
        s2 == [s1 EXCEPT !.mon = cleanup_channel(@, channel_id)]
    IN  IF is_settle_offer = {} THEN Err(s, "InvalidState")
        ELSE IF ~u.ok THEN Err(s, "InvalidState")
        ELSE IF send /\ bfail THEN Err(s, "BlockchainError")
        ELSE Ok(upsert_channel(s2, channel_id, u.channel), "None",
                IF send THEN {settle_tx} ELSE {})

force_close_channel_internal(s, channel, is_initiator, bfail, pick) ==
    LET Speculative == {"SettledOffered", "SettledReceived", "SettledAccepted",
                        "SettledConfirmed", "RenewOffered", "RenewAccepted",
                        "RenewConfirmed", "CollaborativeCloseOffered"}
        rolled == channel.state.st \in Speculative
        c == IF rolled THEN RollBack(channel) ELSE channel
        st == c.state.st
    IN  IF rolled /\ (channel.roll_back_state.st = "None" \/ st \in Speculative)
        THEN Err(s, "Panic")
        ELSE IF st = "Established"
        THEN initiate_unilateral_close_established_channel(s, c, is_initiator,
                 c.state.buffer_transaction, bfail)
        ELSE IF st = "RenewFinalized"
        THEN initiate_unilateral_close_established_channel(s, c, is_initiator,
                 c.state.buffer_transaction, bfail)
        ELSE IF st = "Settled"
        THEN initiate_unilateral_close_settled_channel(s, c, is_initiator, bfail, pick)
        ELSE Err(s, "InvalidState")

force_close_channel(s, channel_id, bfail, pick) ==
    LET g == get_channel_in_state(s, channel_id, "Signed", "any")
    IN  IF g # "Ok" THEN Err(s, g)
        ELSE force_close_channel_internal(s, s.channels[channel_id], TRUE, bfail, pick)

(***************************************************************************)
(* periodic_check.  env is what the tick finds outside the manager:        *)
(* env.bfail, the ids whose transactions the node refuses to broadcast;    *)
(* env.attested, the contracts the oracles have attested; env.now, the     *)
(* time of the clock; env.pick, the pick of find_map.                      *)
(***************************************************************************)
\* The transactions that spend an outpoint: the CET and the punish
\* transaction of a buffer transaction.
get_txo_confirmations(s, txo) ==
    LET spending == {t \in {CetOf(txo.txid), PunishTxOf(txo.txid)} : t \in DOMAIN s.chain}
    IN  {t \in spending : \A o \in spending : s.chain[o] <= s.chain[t]}

\* The bodies of the two loops of check_transaction_confirmations.
check_tx_confirmations(s, txid) ==
    IF get_transaction_confirmations(s, txid) > 0
    THEN [s EXCEPT !.mon = confirm_tx(@, txid)]
    ELSE s

check_txo_confirmations(s, txo) ==
    LET found == get_txo_confirmations(s, txo)
        txid == CHOOSE t \in found : TRUE
    IN  IF found # {} /\ s.chain[txid] > 0
        THEN [s EXCEPT !.mon = confirm_txo(@, txo, txid)]
        ELSE s

ContractsIn(s, state) == {id \in DOMAIN s.contracts : s.contracts[id].state = state}

check_signed_contract(s, id) ==
    IF get_transaction_confirmations(s, FundTx(id)) >= NB_CONFIRMATIONS
    THEN update_contract(s, id, WithState(s.contracts[id], "Confirmed"))
    ELSE s

\* The contract close_contract returns, with the state it leaves.
close_contract(s, id, signed_cet, env) ==
    LET confirmations == get_transaction_confirmations(s, signed_cet)
    IN  IF confirmations < 1
        THEN IF signed_cet.ch \in env.bfail
             THEN [res |-> "BlockchainError", s |-> s, state |-> "None"]
             ELSE [res |-> "Ok", s |-> send_transaction(s, signed_cet), state |-> "PreClosed"]
        ELSE IF confirmations < NB_CONFIRMATIONS
        THEN [res |-> "Ok", s |-> s, state |-> "PreClosed"]
        ELSE [res |-> "Ok", s |-> s, state |-> "Closed"]

\* check_refund as a check that does not look at the lock time.
check_refund_any_time(s, id, env) ==
    LET send == get_transaction_confirmations(s, RefundTx(id)) = 0
        s1 == IF send THEN send_transaction(s, RefundTx(id)) ELSE s
    IN  IF send /\ id \in env.bfail THEN Err(s, "BlockchainError")
        ELSE Ok(update_contract(s1, id, WithState(s.contracts[id], "Refunded")), "None",
                IF send THEN {RefundTx(id)} ELSE {})

check_refund(s, id, env) ==
    LET send == get_transaction_confirmations(s, RefundTx(id)) = 0
        s1 == IF send THEN send_transaction(s, RefundTx(id)) ELSE s
    IN  IF ~(lock_time(RefundTx(id)) <= env.now) THEN Ok(s, "None", {})
        ELSE IF send /\ id \in env.bfail THEN Err(s, "BlockchainError")
        ELSE Ok(update_contract(s1, id, WithState(s.contracts[id], "Refunded")), "None",
                IF send THEN {RefundTx(id)} ELSE {})

check_confirmed_contract(s, id, env) ==
    LET closed == close_contract(s, id, ContractCet(id), env)
    IN  IF id \in env.attested
        THEN IF closed.res = "Ok"
             THEN Ok(update_contract(closed.s, id,
                         IF closed.state = "PreClosed"
                         THEN PreClosed(s.contracts[id], Attestations(id), ContractCet(id))
                         ELSE WithState(s.contracts[id], "Closed")),
                     "None", {})
             ELSE Err(s, closed.res)
        ELSE check_refund(s, id, env)

check_preclosed_contract(s, id) ==
    IF get_transaction_confirmations(s, s.contracts[id].signed_cet) >= NB_CONFIRMATIONS
    THEN update_contract(s, id, WithState(s.contracts[id], "Closed"))
    ELSE s

(***************************************************************************)
(* channel_checks.                                                         *)
(***************************************************************************)
\* try_finalize_closing_established_channel as a call that does not wait for
\* the relative lock of the CET.
try_finalize_closing_established_channel_at_once(s, channel_id, env) ==
    LET signed_channel == s.channels[channel_id]
        buffer_tx == signed_channel.state.buffer_transaction
        contract_id == signed_channel.state.contract_id
        gc == get_contract_in_state(s, contract_id, "Confirmed", "any")
        u == channel_updater("finalize_unilateral_close_established_channel",
                             signed_channel, TRUE)
        closed == close_contract(s, contract_id, CetOf(buffer_tx), env)
        s1 == [closed.s EXCEPT !.mon = cleanup_channel(@, channel_id)]
    IN  IF gc # "Ok" THEN Err(s, gc)
        ELSE IF contract_id \notin env.attested THEN Err(s, "InvalidState")
        ELSE IF closed.res # "Ok" THEN Err(s, closed.res)
        ELSE Ok(update_contract(upsert_channel(s1, channel_id, u.channel), contract_id,
                                IF closed.state = "PreClosed"
                                THEN PreClosed(s.contracts[contract_id],
                                               Attestations(contract_id),
                                               CetOf(buffer_tx))
                                ELSE WithState(s.contracts[contract_id], "Closed")),
                "None", {})

try_finalize_closing_established_channel(s, channel_id, env) ==
    LET signed_channel == s.channels[channel_id]
        buffer_tx == signed_channel.state.buffer_transaction
        contract_id == signed_channel.state.contract_id
        gc == get_contract_in_state(s, contract_id, "Confirmed", "any")
        u == channel_updater("finalize_unilateral_close_established_channel",
                             signed_channel, TRUE)
        closed == close_contract(s, contract_id, CetOf(buffer_tx), env)
        s1 == [closed.s EXCEPT !.mon = cleanup_channel(@, channel_id)]
        closed_contract ==
            IF closed.state = "PreClosed"
            THEN PreClosed(s.contracts[contract_id], Attestations(contract_id),
                           CetOf(buffer_tx))
            ELSE WithState(s.contracts[contract_id], "Closed")
    IN  IF get_transaction_confirmations(s, buffer_tx) < CET_NSEQUENCE
        THEN Ok(s, "None", {})
        ELSE IF gc # "Ok" THEN Err(s, gc)
        ELSE IF contract_id \notin env.attested THEN Err(s, "InvalidState")
        ELSE IF closed.res # "Ok" THEN Err(s, closed.res)
        ELSE Ok(update_contract(upsert_channel(s1, channel_id, u.channel),
                                contract_id, closed_contract),
                "None", {})

\* try_finalize_settled_closing_channel as a call that does not wait for the
\* relative lock of the claim transaction.
try_finalize_settled_closing_channel_at_once(s, channel_id, env) ==
    LET signed_channel == s.channels[channel_id]
        u == channel_updater("finalize_unilateral_close_settled_channel",
                             signed_channel, TRUE)
        claim_tx == u.channel.claim_transaction
        send == get_transaction_confirmations(s, claim_tx) < 1
        s1 == IF send THEN send_transaction(s, claim_tx) ELSE s
    IN  IF send /\ channel_id \in env.bfail THEN Err(s, "BlockchainError")
        ELSE Ok(upsert_channel(s1, channel_id, u.channel), "None", {})

try_finalize_settled_closing_channel(s, channel_id, env) ==
    LET signed_channel == s.channels[channel_id]
        settle_tx == signed_channel.state.settle_transaction
        u == channel_updater("finalize_unilateral_close_settled_channel",
                             signed_channel, TRUE)
        claim_tx == u.channel.claim_transaction
        send == get_transaction_confirmations(s, claim_tx) < 1
        s1 == IF send THEN send_transaction(s, claim_tx) ELSE s
    IN  IF get_transaction_confirmations(s, settle_tx) < CET_NSEQUENCE
        THEN Ok(s, "None", {})
        ELSE IF send /\ channel_id \in env.bfail THEN Err(s, "BlockchainError")
        ELSE Ok(upsert_channel(s1, channel_id, u.channel), "None", {})

try_confirm_claim_tx(s, channel_id, env) ==
    LET channel == s.channels[channel_id]
        claim_tx == channel.claim_transaction
        confirmations == get_transaction_confirmations(s, claim_tx)
        closed_channel == ClosedChannel(IF channel.is_closer THEN "Closed"
                                        ELSE "CounterClosed", channel, claim_tx)
        s1 == [s EXCEPT !.mon = cleanup_channel(@, channel_id)]
    IN  IF confirmations < 1
        THEN IF channel_id \in env.bfail THEN Err(s, "BlockchainError")
             ELSE Ok(send_transaction(s, claim_tx), "None", {})
        ELSE IF confirmations >= NB_CONFIRMATIONS
        THEN Ok(upsert_channel(s1, channel_id, closed_channel), "None", {})
        ELSE Ok(s, "None", {})

SignedChannelsIn(s, st) ==
    {c \in DOMAIN s.channels : s.channels[c].kind = "Signed" /\ s.channels[c].state.st = st}

\* One iteration of the loop of process_watched_txs.
process_watched_tx(s, tx, channel_info, env) ==
    LET channel_id == channel_info.channel_id
        tx_type == channel_info.tx_type
        signed_channel == s.channels[channel_id]
        rb == signed_channel.roll_back_state
        contract_id == get_contract_id(signed_channel)
        cleaned == [s EXCEPT !.mon = cleanup_channel(@, channel_id)]
        Into(state) == Ok(upsert_channel(s, channel_id, Swap(signed_channel, state)),
                          "None", {})
    IN  IF get_channel_in_state(s, channel_id, "Signed", "any") # "Ok"
        THEN Ok(s, "None", {})
        ELSE CASE tx_type.tag = "BufferTx" ->
                    IF contract_id = "none" THEN Err(s, "Panic")
                    ELSE Into(Closing(tx, contract_id, FALSE))
               [] tx_type.tag = "Revoked" ->
                    IF channel_id \in env.bfail THEN Err(s, "BlockchainError")
                    ELSE Ok(persist_chain_monitor(
                              upsert_channel(
                                [send_transaction(s, PunishTxOf(tx))
                                    EXCEPT !.mon = cleanup_channel(@, channel_id)],
                                channel_id,
                                ClosedPunishedChannel(signed_channel, PunishTxOf(tx)))),
                            "None", {PunishTxOf(tx)})
               [] tx_type.tag = "CollaborativeClose" ->
                    LET closed_contract ==
                            IF rb.st = "Established" THEN rb.signed_contract_id ELSE "none"
                        gc == IF closed_contract = "none" THEN "Ok"
                              ELSE get_collaboratively_closed_contract(s, closed_contract)
                    IN  IF signed_channel.state.st # "CollaborativeCloseOffered"
                        THEN Err(s, "InvalidState")
                        ELSE IF gc # "Ok" THEN Err(s, gc)
                        ELSE Ok(persist_chain_monitor(
                                  upsert_channel(CloseContract(cleaned, closed_contract),
                                    channel_id,
                                    ClosedChannel("CollaborativelyClosed", signed_channel, tx))),
                                "None", {})
               [] tx_type.tag = "SettleTx" ->
                    LET is_settle_offer ==
                            did_we_offer_last_channel_settlement(s.mon, channel_id, env.pick)
                    IN  IF is_settle_offer = {} THEN Ok(s, "None", {})
                        ELSE Into(SettledClosing(tx, CHOOSE b \in is_settle_offer : TRUE,
                                                 FALSE))
               [] tx_type.tag = "SettleTx2" ->
                    Into(SettledClosing(tx, tx_type.is_offer, FALSE))
               [] tx_type.tag = "Cet" ->
                    LET closed_channel ==
                            ClosedChannel(IF signed_channel.state.st = "Closing"
                                             /\ ~signed_channel.state.is_initiator
                                          THEN "CounterClosed" ELSE "Closed",
                                          signed_channel, tx)
                        s1 == upsert_channel(cleaned, channel_id, closed_channel)
                        pre_closed == contract_id # "none"
                                      /\ s.contracts[contract_id].state = "Confirmed"
                    IN  Ok(persist_chain_monitor(
                              IF pre_closed
                              THEN update_contract(s1, contract_id,
                                       PreClosed(s.contracts[contract_id], {}, tx))
                              ELSE s1),
                           "None", {})
               [] OTHER -> Ok(s, "None", {})

\* The results process_watched_txs can return over the orders of the Vec:
\* the entries of watched_tx come before those of watched_txo.
RECURSIVE process_watched_txs(_, _, _)
process_watched_txs(s, watched_txs, env) ==
    IF watched_txs = {} THEN {Ok(s, "None", {})}
    ELSE LET txs == {w \in watched_txs : ~w.txo}
             first == IF txs # {} THEN txs ELSE watched_txs
         IN  UNION {LET r == process_watched_tx(s, w.tx, w.channel_info, env)
                    IN  IF r.res # "Ok" THEN {r}
                        ELSE process_watched_txs(r.s, watched_txs \ {w}, env) :
                    w \in first}

check_for_watched_tx(s, env) ==
    {IF r.res = "Ok" THEN Ok(persist_chain_monitor(r.s), "None", {}) ELSE r :
        r \in process_watched_txs(s, confirmed_txs(s.mon), env)}

\* The loops of the tick that log an item's error and go on to the next:
\* fn names the body, and the order of the items does not matter to it.
RECURSIVE ForEach(_, _, _, _)
ForEach(fn, s, items, env) ==
    IF items = {} THEN s
    ELSE LET x == CHOOSE y \in items : TRUE
             s1 == CASE fn = "check_tx_confirmations" -> check_tx_confirmations(s, x)
                      [] fn = "check_txo_confirmations" -> check_txo_confirmations(s, x)
                      [] fn = "check_signed_contract" -> check_signed_contract(s, x)
                      [] fn = "check_confirmed_contract" ->
                            check_confirmed_contract(s, x, env).s
                      [] fn = "check_preclosed_contract" -> check_preclosed_contract(s, x)
                      [] fn = "try_finalize_closing_established_channel" ->
                            try_finalize_closing_established_channel(s, x, env).s
                      [] fn = "try_finalize_settled_closing_channel" ->
                            try_finalize_settled_closing_channel(s, x, env).s
                      [] fn = "try_confirm_claim_tx" -> try_confirm_claim_tx(s, x, env).s
         IN  ForEach(fn, s1, items \ {x}, env)

check_transaction_confirmations(s, env) ==
    ForEach("check_txo_confirmations",
            ForEach("check_tx_confirmations", s, get_watched_txs(s.mon), env),
            get_watched_txos(s.mon), env)

check_signed_contracts(s, env) ==
    ForEach("check_signed_contract", s, ContractsIn(s, "Signed"), env)

check_confirmed_contracts(s, env) ==
    ForEach("check_confirmed_contract", s,
            {id \in ContractsIn(s, "Confirmed") : s.contracts[id].channel_id = "none"}, env)

check_preclosed_contracts(s, env) ==
    ForEach("check_preclosed_contract", s, ContractsIn(s, "PreClosed"), env)

\* The deadline a state carries.  The handlers of Spec run at time 0 and
\* leave the field out of the states they write; the handlers of SpecTimeout
\* run at any time and write it.
PEER_TIMEOUT == 3600

timeout_of(state) == IF "timeout" \in DOMAIN state THEN state.timeout ELSE PEER_TIMEOUT

\* The loop the tick would run with the force closure switched on.
RECURSIVE ForceCloseEach(_, _, _)
ForceCloseEach(s, items, env) ==
    IF items = {} THEN s
    ELSE LET x == CHOOSE y \in items : TRUE
             r == force_close_channel_internal(s, s.channels[x], TRUE, FALSE, env.pick)
         IN  ForceCloseEach(r.s, items \ {x}, env)

TimedOutStates ==
    {"RenewOffered", "RenewAccepted", "RenewConfirmed", "RenewFinalized",
     "SettledOffered", "SettledAccepted", "SettledConfirmed"}

\* One expansion of check_for_timed_out_channels!: the channels of the state
\* whose deadline is before now.
timed_out_channels(s, st, now) ==
    {c \in SignedChannelsIn(s, st) : timeout_of(s.channels[c].state) < now}

check_for_timed_out_channels_force_closing(s, env) ==
    LET logged == UNION {timed_out_channels(s, st, env.now) : st \in TimedOutStates}
    IN  [logged |-> logged] @@ Ok(ForceCloseEach(s, logged, env), "None", {})

\* The channels in logged get a warning in the log and nothing else.
check_for_timed_out_channels(s, env) ==
    LET logged == UNION {timed_out_channels(s, st, env.now) : st \in TimedOutStates}
    IN  [logged |-> logged] @@ Ok(s, "None", {})

channel_checks(s, env) ==
    LET s1 == ForEach("try_finalize_closing_established_channel", s,
                      SignedChannelsIn(s, "Closing"), env)
        s2 == ForEach("try_finalize_settled_closing_channel", s1,
                      SignedChannelsIn(s1, "SettledClosing"), env)
        s3 == ForEach("try_confirm_claim_tx", s2,
                      {c \in DOMAIN s2.channels : s2.channels[c].kind = "SettledClosing"},
                      env)
        s4 == check_for_timed_out_channels(s3, env).s
    IN  check_for_watched_tx(s4, env)

\* The state in which channel_checks calls check_for_watched_tx.
channel_checks_closing(s, env) ==
    LET s1 == ForEach("try_finalize_closing_established_channel", s,
                      SignedChannelsIn(s, "Closing"), env)
        s2 == ForEach("try_finalize_settled_closing_channel", s1,
                      SignedChannelsIn(s1, "SettledClosing"), env)
        s3 == ForEach("try_confirm_claim_tx", s2,
                      {c \in DOMAIN s2.channels : s2.channels[c].kind = "SettledClosing"},
                      env)
    IN  check_for_timed_out_channels(s3, env).s

\* The state of the tick when it comes to the watched transactions.
BeforeWatchedTx(s, env) ==
    LET s1 == check_transaction_confirmations(s, env)
        s2 == check_signed_contracts(s1, env)
        s3 == check_confirmed_contracts(s2, env)
        s4 == check_preclosed_contracts(s3, env)
    IN  channel_checks_closing(s4, env)

\* The results of one tick, with the transactions it put on the chain.
periodic_check(s, env) ==
    LET s1 == check_transaction_confirmations(s, env)
        s2 == check_signed_contracts(s1, env)
        s3 == check_confirmed_contracts(s2, env)
        s4 == check_preclosed_contracts(s3, env)
    IN  {Result(r.s, r.res, "None", DOMAIN r.s.chain \ DOMAIN s.chain) :
            r \in channel_checks(s4, env)}

(***************************************************************************)
(* The blockchain: what confirms, and what the counter party can publish.  *)
(***************************************************************************)
Confirmed(tx) == tx \in DOMAIN chain /\ chain[tx] >= 1

\* Whether tx can enter a block: its parent is buried deep enough and no
\* transaction spending the same output is in a block already.
CanConfirm(tx) ==
    LET Rivals(kinds) == {t \in DOMAIN chain : /\ t # tx
                                              /\ t.ch = tx.ch
                                              /\ t.kind \in kinds
                                              /\ chain[t] >= 1}
        Parents(kinds, depth) == {t \in DOMAIN chain : /\ t.ch = tx.ch
                                                      /\ t.idx = tx.idx
                                                      /\ t.kind \in kinds
                                                      /\ chain[t] >= depth}
        Spenders == {t \in Rivals({"cet", "rival_cet", "punish", "claim", "refund"}) :
                        t.idx = tx.idx}
    IN  CASE tx.kind \in {"buffer", "settle", "close"} ->
               Rivals({"buffer", "settle", "close"}) = {}
          [] tx.kind = "cet" /\ tx.ch \in ChanIds ->
               Parents({"buffer"}, CET_NSEQUENCE) # {} /\ Spenders = {}
          [] tx.kind = "claim" ->
               Parents({"settle"}, CET_NSEQUENCE) # {} /\ Spenders = {}
          [] tx.kind = "punish" ->
               Parents({"buffer", "settle"}, 1) # {} /\ Spenders = {}
          [] tx.kind \in {"cet", "rival_cet", "refund"} /\ tx.ch \notin ChanIds ->
               Confirmed(FundTx(tx.ch)) /\ Spenders = {}
          [] OTHER -> TRUE

\* The transactions the counter party holds signed: those we watch for, and
\* the CETs of the buffer transactions whose output we watch.
Publishable ==
    get_watched_txs(chain_monitor)
    \cup {CetOf(o.txid) : o \in get_watched_txos(chain_monitor)}

ConfirmTransaction ==
    \E tx \in DOMAIN chain :
        /\ chain[tx] = 0
        /\ CanConfirm(tx)
        /\ chain' = Put(chain, tx, 1)
        /\ UNCHANGED <<contracts, channels, chain_monitor, persisted_monitor, pending>>

BuryTransaction ==
    \E tx \in DOMAIN chain :
        /\ chain[tx] = 1
        /\ tx.kind \in {"buffer", "settle"}
        /\ chain' = Put(chain, tx, CET_NSEQUENCE)
        /\ UNCHANGED <<contracts, channels, chain_monitor, persisted_monitor, pending>>

CounterPartyPublishes ==
    \E tx \in Publishable :
        /\ tx \notin DOMAIN chain
        /\ CanConfirm(tx)
        /\ chain' = Put(chain, tx, 1)
        /\ UNCHANGED <<contracts, channels, chain_monitor, persisted_monitor, pending>>

(***************************************************************************)
(* The manager of one node, its peers and the chain.                       *)
(***************************************************************************)
Init ==
    /\ contracts = [id \in ContractIds |-> NoContract]
    /\ channels = [id \in ChanIds |-> NoChannel]
    /\ chain_monitor = ChainMonitorNew(0)
    /\ persisted_monitor = ChainMonitorNew(0)
    /\ chain = EmptyMap
    /\ pending = {}

\* The state a call leaves behind, whatever it returned.
Commit(r) ==
    /\ contracts' = r.s.contracts
    /\ channels' = r.s.channels
    /\ chain_monitor' = r.s.mon
    /\ persisted_monitor' = r.s.pmon
    /\ chain' = r.s.chain
    /\ UNCHANGED pending

\* The temporary id a local offer draws: one the store does not hold.
FreshContractIds ==
    LET unused == {id \in ContractIds : contracts[id].state = "None"}
    IN  IF unused = {} THEN {} ELSE {CHOOSE id \in unused : TRUE}

FreshChannelIds(ids) ==
    LET unused == {id \in ids : channels[id].kind = "None"}
    IN  IF unused = {} THEN {} ELSE {CHOOSE id \in unused : TRUE}

\* Whether the channel has an update left within the bound of the model.
CanUpdate(c) == channels[c].kind = "Signed" => channels[c].update_idx > 0

\* What a tick can find outside the manager.
TickEnvs(failing, times) ==
    [bfail : failing, attested : {{}, ContractIds}, now : times, pick : BOOLEAN]

\* The channels the behaviours of Spec open.
SpecChans == {"c1"}

AllIds == ChanIds \cup ContractIds

Next ==
    \/ \E c \in FreshChannelIds(SpecChans), k \in FreshContractIds, p \in CounterParties :
          Commit(offer_channel(State, c, k, p))
    \/ \E c \in SpecChans, k \in ContractIds, p \in CounterParties :
          Commit(on_offer_channel(State, c, k, p))
    \/ \E c \in SpecChans : Commit(accept_channel(State, c))
    \/ \E c \in SpecChans : Commit(reject_channel(State, c))
    \/ \E c \in SpecChans, p \in Peers, valid \in BOOLEAN :
          Commit(on_accept_channel(State, c, p, valid))
    \/ \E c \in SpecChans, p \in Peers, valid \in BOOLEAN, bfail \in BOOLEAN :
          Commit(on_sign_channel(State, c, p, valid, bfail))
    \/ \E c \in SpecChans : CanUpdate(c) /\ Commit(settle_offer(State, c))
    \/ \E c \in SpecChans, p \in Peers : CanUpdate(c) /\ Commit(on_settle_offer(State, c, p))
    \/ \E c \in SpecChans : Commit(accept_settle_offer(State, c))
    \/ \E c \in SpecChans : Commit(reject_settle_offer(State, c))
    \/ \E c \in SpecChans, p \in Peers, valid \in BOOLEAN :
          Commit(on_settle_accept(State, c, p, valid))
    \/ \E c \in SpecChans, p \in Peers, valid \in BOOLEAN :
          Commit(on_settle_confirm(State, c, p, valid))
    \/ \E c \in SpecChans, p \in Peers, valid \in BOOLEAN :
          Commit(on_settle_finalize(State, c, p, valid))
    \/ \E c \in SpecChans, k \in FreshContractIds :
          CanUpdate(c) /\ Commit(renew_offer(State, c, k))
    \/ \E c \in SpecChans, k \in ContractIds, p \in Peers :
          CanUpdate(c) /\ Commit(on_renew_offer(State, c, k, p))
    \/ \E c \in SpecChans : Commit(accept_renew_offer(State, c))
    \/ \E c \in SpecChans : Commit(reject_renew_offer(State, c))
    \/ \E c \in SpecChans, p \in Peers, valid \in BOOLEAN :
          Commit(on_renew_accept(State, c, p, valid))
    \/ \E c \in SpecChans, p \in Peers, valid \in BOOLEAN :
          Commit(on_renew_confirm(State, c, p, valid))
    \/ \E c \in SpecChans, p \in Peers, valid \in BOOLEAN :
          Commit(on_renew_finalize(State, c, p, valid))
    \/ \E c \in SpecChans, p \in Peers, valid \in BOOLEAN :
          Commit(on_renew_revoke(State, c, p, valid))
    \/ \E c \in SpecChans : Commit(offer_collaborative_close(State, c))
    \/ \E c \in SpecChans, p \in Peers : Commit(on_collaborative_close_offer(State, c, p))
    \/ \E c \in SpecChans, bfail \in BOOLEAN :
          Commit(accept_collaborative_close(State, c, bfail))
    \/ \E c \in SpecChans, p \in Peers : Commit(on_reject(State, c, p))
    \/ \E c \in SpecChans, bfail \in BOOLEAN, pick \in BOOLEAN :
          Commit(force_close_channel(State, c, bfail, pick))
    \/ \E env \in TickEnvs({{}, AllIds}, {0}) : \E r \in periodic_check(State, env) : Commit(r)
    \/ ConfirmTransaction
    \/ BuryTransaction
    \/ CounterPartyPublishes

Spec == Init /\ [][Next]_vars

(***************************************************************************)
(* The ChainMonitor on its own, under any sequence of its operations.      *)
(***************************************************************************)
MonitorTxs == {BufferTxOf(c, InitialUpdateIdx) : c \in ChanIds}

MonitorTxTypes ==
    {BufferTx, CollaborativeClose, SettleTx2(TRUE),
     Revoked(InitialUpdateIdx, AdaptorSig("own", NoTx), FALSE, "Buffer")}

Monitor(m) ==
    /\ chain_monitor' = m
    /\ UNCHANGED <<contracts, channels, persisted_monitor, chain, pending>>

NextMonitor ==
    \/ \E tx \in MonitorTxs, c \in ChanIds, tx_type \in MonitorTxTypes :
          Monitor(add_tx(chain_monitor, tx, ChannelInfo(c, tx_type)))
    \/ \E tx \in MonitorTxs : Monitor(remove_tx(chain_monitor, tx))
    \/ \E c \in ChanIds : Monitor(cleanup_channel(chain_monitor, c))
    \/ \E tx \in MonitorTxs : Monitor(confirm_tx(chain_monitor, tx))
    \/ \E tx \in MonitorTxs, spend \in {"cet", "punish"} :
          Monitor(confirm_txo(chain_monitor, OutPoint(tx, 0), Tx(tx.ch, spend, tx.idx)))

SpecMonitor == Init /\ [][NextMonitor]_vars

\* C4: in the chain monitor, under any sequence of add_tx, remove_tx,
\* cleanup_channel, confirm_tx and confirm_txo, every watched_tx entry tagged
\* BufferTx with channel id c comes with a watched_txo entry for (txid, 0)
\* tagged Cet with the same channel id c.
C4_BufferTxHasCetOutput ==
    \A txid \in DOMAIN chain_monitor.watched_tx :
        LET channel_info == chain_monitor.watched_tx[txid].channel_info
        IN  channel_info.tx_type = BufferTx =>
              /\ OutPoint(txid, 0) \in DOMAIN chain_monitor.watched_txo
              /\ chain_monitor.watched_txo[OutPoint(txid, 0)].channel_info
                    = ChannelInfo(channel_info.channel_id, Cet)

\* A buffer transaction and its output, both Confirmed under their tags, next
\* to an entry that add_tx has re-tagged and whose output is still watched.
C4_Witness ==
    \E txid \in DOMAIN chain_monitor.watched_tx :
        /\ chain_monitor.watched_tx[txid].channel_info.tx_type = BufferTx
        /\ chain_monitor.watched_tx[txid].state = "Confirmed"
        /\ OutPoint(txid, 0) \in DOMAIN chain_monitor.watched_txo
        /\ chain_monitor.watched_txo[OutPoint(txid, 0)].state = "Confirmed"
        /\ \E other \in DOMAIN chain_monitor.watched_tx :
              /\ other # txid
              /\ chain_monitor.watched_tx[other].channel_info.tx_type # BufferTx
              /\ OutPoint(other, 0) \in DOMAIN chain_monitor.watched_txo

(***************************************************************************)
(* Properties of the manager.                                              *)
(***************************************************************************)
SignedIn(c, sts) == channels[c].kind = "Signed" /\ channels[c].state.st \in sts

\* C1: once a contract is Closed, Refunded, FailedAccept, FailedSign or
\* Rejected, or a channel is Closed, CounterClosed, ClosedPunished,
\* CollaborativelyClosed, Cancelled, FailedAccept or FailedSign, no later
\* operation replaces the stored entry, the handlers that store a contract
\* under an id the peer chose (on_offer_channel, on_renew_offer) included.
C1_TerminalEntriesStay ==
    [][/\ \A id \in ContractIds :
             contracts[id].state \in ContractTerminal => contracts'[id] = contracts[id]
       /\ \A c \in ChanIds :
             channels[c].kind \in ChannelTerminal => channels'[c] = channels[c]]_vars

\* C2: a handler that returns an error leaves the store and the in-memory
\* chain monitor as they were before the call (but for the FailedAccept or
\* FailedSign record of a signature failure); in particular on_sign_channel,
\* when the broadcast of the fund transaction fails, leaves no Signed
\* contract and no new chain monitor entry behind.
C2_FailedSignChannelLeavesNoTrace ==
    \A c \in ChanIds, p \in Peers :
        LET r == on_sign_channel(State, c, p, TRUE, TRUE)
        IN  r.res # "Ok" =>
              /\ r.s.contracts = contracts
              /\ r.s.channels = channels
              /\ r.s.mon = chain_monitor

\* C5: when the reactor has broadcast the punish transaction for a confirmed
\* revoked transaction of a channel, the channel is stored as ClosedPunished
\* with the txid of that punish transaction, and from then on neither the
\* in-memory nor the persisted chain monitor holds an entry of the channel.
C5_PunishedChannelClosedAndUnwatched ==
    \A tx \in DOMAIN chain :
        tx.kind = "punish" =>
          /\ channels[tx.ch].kind = "ClosedPunished"
          /\ channels[tx.ch].punish_txid = tx
          /\ MonitorEntriesOf(chain_monitor, tx.ch) = {}
          /\ MonitorEntriesOf(persisted_monitor, tx.ch) = {}

\* The punish transaction of a revoked buffer transaction from before a
\* settlement is on the chain, and so is the revoked transaction.
C5_Witness ==
    \E tx \in DOMAIN chain :
        /\ tx.kind = "punish"
        /\ channels[tx.ch].kind = "ClosedPunished"
        /\ BufferTxOf(tx.ch, tx.idx) \in DOMAIN chain
        /\ MonitorEntriesOf(persisted_monitor, tx.ch) = {}

\* The Revoked entries a tick of the reactor punishes: for each punish
\* transaction the tick broadcasts, the update_idx of the entry's tag and the
\* update_idx of the channel when the tick starts.
Punished ==
    UNION {UNION {{[k |-> chain_monitor.watched_tx[t].channel_info.tx_type.update_idx,
                    current |-> channels[tx.ch].update_idx] :
                      t \in {u \in DOMAIN chain_monitor.watched_tx :
                               /\ PunishTxOf(u) = tx
                               /\ chain_monitor.watched_tx[u].channel_info.tx_type.tag
                                     = "Revoked"}} :
                  tx \in {x \in r.sent : x.kind = "punish"}} :
           r \in UNION {periodic_check(State, env) : env \in TickEnvs({{}}, {0})}}

\* C6 (as the code has it): whenever the reactor broadcasts a punish
\* transaction for an entry tagged Revoked{update_idx = k}, k is not less
\* than the channel's current update_idx: the index counts down, and the
\* settle and renew handshakes register the index of the state they replace.
C6_PunishedIndexNotBelowCurrent == \A e \in Punished : e.k >= e.current

\* A tick punishes a state whose index is above the channel's.
C6_Witness == \E e \in Punished : e.k > e.current

\* C6 (as the specification has it): k is strictly less than the channel's
\* current update_idx.
C6_PunishedIndexBelowCurrent == \A e \in Punished : e.k < e.current

\* The entry of the chain monitor m for txid carries this tag for channel c.
Tagged(m, txid, c, tx_type) ==
    /\ txid \in DOMAIN m.watched_tx
    /\ m.watched_tx[txid].channel_info = ChannelInfo(c, tx_type)

\* The tag a settlement gives the buffer transaction of the Established
\* state it replaces, when it leaves the channel at update_idx.
SettleRevoked(established, update_idx) ==
    Revoked(update_idx + 1, established.own_buffer_adaptor_signature,
            established.is_offer, "Buffer")

\* C7 (as the code has it): in the settle handshake the accepter registers
\* the prior buffer transaction's txid when it processes SettleConfirm and
\* the offerer when it processes SettleFinalize, each tagged
\* Revoked{update_idx = the channel's update_idx + 1, its own buffer adaptor
\* signature of the replaced state, is_offer, Buffer}, in memory and as
\* persisted; so both hold the entry once SettleFinalize is processed, and
\* Settled is never reached without it.
C7_SettledRegistersRevokedBuffer ==
    [][\A c \in ChanIds :
          (/\ SignedIn(c, {"SettledAccepted", "SettledConfirmed"})
           /\ channels'[c].kind = "Signed"
           /\ channels'[c].state.st = "Settled")
          => LET established == channels[c].roll_back_state
                 tx_type == SettleRevoked(established, channels'[c].update_idx)
             IN  /\ established.st = "Established"
                 /\ Tagged(chain_monitor', established.buffer_transaction, c, tx_type)
                 /\ Tagged(persisted_monitor', established.buffer_transaction, c, tx_type)
      ]_vars

\* The channel is Settled, as the offerer of the replaced contract, and the
\* chain monitor holds the buffer transaction of the index above as revoked.
C7_Witness ==
    \E c \in ChanIds :
        /\ SignedIn(c, {"Settled"})
        /\ Tagged(chain_monitor, BufferTxOf(c, channels[c].update_idx + 1), c,
                  SettleRevoked(Established(BufferTxOf(c, channels[c].update_idx + 1),
                                            "k1", TRUE),
                                channels[c].update_idx))

\* C7 (as the specification has it): the offerer registers the prior buffer
\* transaction on SettleConfirm, that is, holds the entry once it has
\* answered SettleAccept with SettleConfirm.
C7_OffererRegistersOnSettleConfirm ==
    \A c \in ChanIds :
        SignedIn(c, {"SettledConfirmed"}) =>
            LET established == channels[c].roll_back_state
            IN  Tagged(chain_monitor, established.buffer_transaction, c,
                       SettleRevoked(established, channels[c].update_idx - 1))

\* C8: when a renew handshake completes (RenewFinalize processed on the
\* offerer's side, RenewRevoke on the accepter's), the chain monitor holds
\* the replaced state's transaction tagged Revoked with the update index of
\* the replaced state: of type Settle under the settle transaction's txid
\* if the channel was Settled, of type Buffer under the buffer transaction's
\* txid if it was Established.
C8_RenewedRegistersRevoked ==
    [][\A c \in ChanIds :
          (/\ SignedIn(c, {"RenewConfirmed", "RenewFinalized"})
           /\ channels'[c].kind = "Signed"
           /\ channels'[c].state.st = "Established")
          => LET replaced == channels[c].roll_back_state
                 txid == IF replaced.st = "Settled" THEN replaced.settle_tx
                         ELSE replaced.buffer_transaction
                 tx_type == chain_monitor'.watched_tx[txid].channel_info.tx_type
             IN  /\ replaced.st \in {"Settled", "Established"}
                 /\ txid \in DOMAIN chain_monitor'.watched_tx
                 /\ chain_monitor'.watched_tx[txid].channel_info.channel_id = c
                 /\ tx_type.tag = "Revoked"
                 /\ tx_type.update_idx = channels'[c].update_idx + 1
                 /\ tx_type.revoked_tx_type
                       = (IF replaced.st = "Settled" THEN "Settle" ELSE "Buffer")
      ]_vars

\* A channel renewed from Settled: Established again, with the settle
\* transaction of the index above watched as revoked.
C8_Witness ==
    \E c \in ChanIds :
        /\ SignedIn(c, {"Established"})
        /\ channels[c].update_idx < InitialUpdateIdx
        /\ SettleTxOf(c, channels[c].update_idx + 1) \in DOMAIN chain_monitor.watched_tx
        /\ chain_monitor.watched_tx[SettleTxOf(c, channels[c].update_idx + 1)]
              .channel_info.tx_type.tag = "Revoked"

\* C9: when the buffer transaction confirms, before the collaborative close
\* transaction, for a channel in CollaborativeCloseOffered whose
\* roll_back_state holds Established, the tick of the reactor that sees it
\* moves the channel to Closing{is_initiator = false}, not to
\* CollaborativelyClosed, and the Established state stays in roll_back_state.
C9_ClosingKeepsEstablishedRollBack ==
    \A c \in ChanIds :
        (/\ SignedIn(c, {"CollaborativeCloseOffered"})
         /\ channels[c].roll_back_state.st = "Established"
         /\ Tagged(chain_monitor, channels[c].roll_back_state.buffer_transaction, c, BufferTx)
         /\ Confirmed(channels[c].roll_back_state.buffer_transaction))
        => \A env \in TickEnvs({{}}, {0}) : \A r \in periodic_check(State, env) :
              r.s.channels[c].kind = "Signed" =>
                 /\ r.s.channels[c].state.st = "Closing"
                 /\ ~r.s.channels[c].state.is_initiator
                 /\ r.s.channels[c].roll_back_state = channels[c].roll_back_state

(***************************************************************************)
(* Two channels under one reactor: what a tick does to one channel when    *)
(* the reaction for the other fails.                                       *)
(***************************************************************************)
NextTick ==
    \/ \E c \in FreshChannelIds(ChanIds), k \in FreshContractIds, p \in CounterParties :
          Commit(offer_channel(State, c, k, p))
    \/ \E c \in ChanIds, p \in CounterParties : Commit(on_accept_channel(State, c, p, TRUE))
    \/ \E c \in ChanIds, p \in CounterParties :
          CanUpdate(c) /\ Commit(on_settle_offer(State, c, p))
    \/ \E c \in ChanIds : Commit(accept_settle_offer(State, c))
    \/ \E c \in ChanIds, p \in CounterParties : Commit(on_settle_confirm(State, c, p, TRUE))
    \/ \E env \in TickEnvs(SUBSET ChanIds, {0}) : \E r \in periodic_check(State, env) :
          Commit(r)
    \/ CounterPartyPublishes

SpecTick == Init /\ [][NextTick]_vars

\* C10: within one tick, an error while reacting to one confirmed watched
\* transaction is logged and skipped: when the tick succeeds if every
\* broadcast does, what it does to a channel c when broadcasts fail for
\* other channels only is what it does to c when no broadcast fails.
C10_OtherChannelsStillReact ==
    \A c \in ChanIds :
        \A env \in TickEnvs(SUBSET (ChanIds \ {c}), {0}) :
            LET unfailing == periodic_check(State, [env EXCEPT !.bfail = {}])
            IN  (\A r0 \in unfailing : r0.res = "Ok")
                => \A r \in periodic_check(State, env) : \A r0 \in unfailing :
                      r.s.channels[c] = r0.s.channels[c]

(***************************************************************************)
(* Two threads in the manager: a call reads the store when it starts and   *)
(* writes what it computed when it ends; other calls run in between.       *)
(***************************************************************************)
Threads == {"t1", "t2"}

\* What the call t, begun in state t.before and having computed t.after,
\* writes when it ends: the objects it upserts, the chain monitor entries it
\* adds or removes under the lock, the transactions it broadcasts.
WriteBack(t) ==
    LET Upsert(cur, before, after) ==
            [id \in DOMAIN cur |-> IF after[id] # before[id] THEN after[id] ELSE cur[id]]
        Merge(cur, before, after) ==
            LET changed == {x \in DOMAIN after : x \notin DOMAIN before \/ after[x] # before[x]}
                removed == DOMAIN before \ DOMAIN after
            IN  [x \in ((DOMAIN cur) \ removed) \cup changed |->
                    IF x \in changed THEN after[x] ELSE cur[x]]
        mon == [chain_monitor EXCEPT
                  !.watched_tx = Merge(@, t.before.mon.watched_tx, t.after.mon.watched_tx),
                  !.watched_txo = Merge(@, t.before.mon.watched_txo, t.after.mon.watched_txo)]
    IN  /\ contracts' = Upsert(contracts, t.before.contracts, t.after.contracts)
        /\ channels' = Upsert(channels, t.before.channels, t.after.channels)
        /\ chain_monitor' = mon
        /\ persisted_monitor' = IF t.after.pmon # t.before.pmon THEN mon
                                ELSE persisted_monitor
        /\ chain' = [tx \in DOMAIN chain \cup DOMAIN t.after.chain |->
                        IF tx \in DOMAIN chain THEN chain[tx] ELSE 0]

NextRace ==
    \/ \E c \in FreshChannelIds(SpecChans), k \in FreshContractIds, p \in CounterParties :
          Commit(offer_channel(State, c, k, p))
    \/ \E c \in SpecChans, p \in CounterParties : Commit(on_accept_channel(State, c, p, TRUE))
    \/ \E c \in SpecChans : CanUpdate(c) /\ Commit(settle_offer(State, c))
    \/ \E c \in SpecChans, p \in CounterParties : Commit(on_settle_accept(State, c, p, TRUE))
    \/ \E env \in TickEnvs({{}}, {0}) : \E r \in periodic_check(State, env) : Commit(r)
    \/ CounterPartyPublishes
    \/ \E thread \in Threads, c \in SpecChans, p \in CounterParties :
          LET r == on_settle_finalize(State, c, p, TRUE)
          IN  /\ \A t \in pending : t.thread # thread
              /\ pending' = pending \cup {[thread |-> thread, channel_id |-> c,
                                           before |-> State, after |-> r.s, res |-> r.res]}
              /\ UNCHANGED <<contracts, channels, chain_monitor, persisted_monitor, chain>>
    \/ \E t \in pending : WriteBack(t) /\ pending' = pending \ {t}

SpecRace == Init /\ [][NextRace]_vars

\* C3: of two threads at work on one channel at most one applies its
\* transition; the call that ends after the channel was written by another,
\* the reactor's write of Closing or ClosedPunished included, finds the
\* sub-state changed, returns an error and leaves the channel as it is.
C3_StaleCallGivesWay ==
    [][\A t \in pending \ pending' :
          channels[t.channel_id] # t.before.channels[t.channel_id]
          => /\ t.res # "Ok"
             /\ channels'[t.channel_id] = channels[t.channel_id]]_vars

(***************************************************************************)
(* The chain monitor and its persisted copy.                               *)
(***************************************************************************)
\* The calls that can add to or remove from the chain monitor without going
\* through the reactor: the settle handshake and the force close.
MonitorCalls ==
    {accept_settle_offer(State, c) : c \in SpecChans}
    \cup {on_settle_accept(State, c, p, TRUE) : c \in SpecChans, p \in CounterParties}
    \cup {on_settle_confirm(State, c, p, TRUE) : c \in SpecChans, p \in CounterParties}
    \cup {on_settle_finalize(State, c, p, TRUE) : c \in SpecChans, p \in CounterParties}
    \cup {force_close_channel(State, c, FALSE, pick) : c \in SpecChans, pick \in BOOLEAN}

\* C11: whenever a call that added to or removed from the in-memory chain
\* monitor returns Ok, the chain monitor last persisted to the store equals
\* the in-memory chain monitor: the channel and its monitor changes are
\* persisted together.
C11_OkCallsPersistMonitor ==
    \A r \in MonitorCalls :
        (r.res = "Ok" /\ r.s.mon # chain_monitor) => r.s.pmon = r.s.mon

(***************************************************************************)
(* Messages from a peer that is not the counter party.                     *)
(***************************************************************************)
\* What the handler of each inbound message that names the stored channel c
\* returns when the message comes from peer p.
ChannelMessages(c, p) ==
    {on_accept_channel(State, c, p, TRUE), on_sign_channel(State, c, p, TRUE, FALSE),
     on_settle_offer(State, c, p), on_settle_accept(State, c, p, TRUE),
     on_settle_confirm(State, c, p, TRUE), on_settle_finalize(State, c, p, TRUE),
     on_renew_accept(State, c, p, TRUE), on_renew_confirm(State, c, p, TRUE),
     on_renew_finalize(State, c, p, TRUE), on_renew_revoke(State, c, p, TRUE),
     on_collaborative_close_offer(State, c, p), on_reject(State, c, p)}
    \cup {on_renew_offer(State, c, k, p) : k \in ContractIds}

\* The same for the messages that name the stored contract k.
ContractMessages(k, p) ==
    {on_accept_message(State, k, p, TRUE), on_sign_message(State, k, p, TRUE, FALSE)}

\* C12: an inbound message that refers to an existing contract or channel
\* and whose sender is not the counter party stored for it is answered with
\* InvalidParameters, and neither the store nor the chain monitor changes.
C12_ForeignSenderRefused ==
    /\ \A c \in ChanIds, p \in Peers :
          (channels[c].kind # "None" /\ channels[c].counter_party # p)
          => \A r \in ChannelMessages(c, p) : r.res = "InvalidParameters" /\ r.s = State
    /\ \A k \in ContractIds, p \in Peers :
          (contracts[k].state # "None" /\ contracts[k].counter_party # p)
          => \A r \in ContractMessages(k, p) : r.res = "InvalidParameters" /\ r.s = State

\* A channel on which a Reject from the counter party is accepted and one
\* from another peer is refused, as is that peer's Accept for its contract.
C12_Witness ==
    \E c \in ChanIds, p \in Peers :
        /\ channels[c].kind = "Signed"
        /\ channels[c].counter_party # p
        /\ on_reject(State, c, channels[c].counter_party).res = "Ok"
        /\ on_reject(State, c, channels[c].counter_party).s # State
        /\ on_reject(State, c, p).res = "InvalidParameters"
        /\ \E k \in ContractIds :
              /\ contracts[k].state = "Offered"
              /\ on_accept_message(State, k, p, TRUE).res = "InvalidParameters"

(***************************************************************************)
(* On-chain contracts: the offer, accept, sign handshake, the opening of a *)
(* channel, the reactor and the chain.                                     *)
(***************************************************************************)
\* The contracts whose fund output a transaction in the mempool or in a block
\* spends with another CET: the node refuses our CET for them.
Rivalled(s) == {k \in ContractIds : RivalCet(k) \in DOMAIN s.chain}

\* The counter party broadcasts the fund transaction of a contract both have
\* signed or, once the fund transaction is in a block, a CET of its own choice
\* or the refund transaction.
CounterPartyBroadcasts ==
    \E k \in ContractIds :
        \E tx \in {FundTx(k), RivalCet(k), RefundTx(k)} :
            /\ contracts[k].state \in {"Signed", "Confirmed"}
            /\ contracts[k].channel_id = "none"
            /\ tx \notin DOMAIN chain
            /\ tx # FundTx(k) => CanConfirm(tx)
            /\ chain' = Put(chain, tx, 0)
            /\ UNCHANGED <<contracts, channels, chain_monitor, persisted_monitor, pending>>

\* What a tick can find outside the manager: the node refuses the CETs of
\* the rivalled contracts and may refuse any other transaction.
ContractTickEnvs ==
    {env \in TickEnvs(SUBSET ContractIds, 0..MaxTime) : Rivalled(State) \subseteq env.bfail}

\* The ids of the on-chain contracts the behaviours of SpecContract open.
SpecContracts == {"k1"}

NextContract ==
    \/ \E k \in FreshContractIds \cap SpecContracts, p \in CounterParties :
          Commit(send_offer(State, k, p))
    \/ \E k \in SpecContracts, p \in CounterParties : Commit(on_offer_message(State, k, p))
    \/ \E k \in ContractIds : Commit(accept_contract_offer(State, k))
    \/ \E k \in ContractIds, p \in Peers, valid \in BOOLEAN :
          Commit(on_accept_message(State, k, p, valid))
    \/ \E k \in ContractIds, p \in Peers, valid \in BOOLEAN, bfail \in BOOLEAN :
          Commit(on_sign_message(State, k, p, valid, bfail))
    \/ \E c \in FreshChannelIds(SpecChans), k \in FreshContractIds, p \in CounterParties :
          Commit(offer_channel(State, c, k, p))
    \/ \E c \in SpecChans, k \in ContractIds, p \in CounterParties :
          Commit(on_offer_channel(State, c, k, p))
    \/ \E c \in SpecChans : Commit(accept_channel(State, c))
    \/ \E c \in SpecChans : Commit(reject_channel(State, c))
    \/ \E c \in SpecChans, p \in Peers, valid \in BOOLEAN :
          Commit(on_accept_channel(State, c, p, valid))
    \/ \E c \in SpecChans, p \in Peers, valid \in BOOLEAN, bfail \in BOOLEAN :
          Commit(on_sign_channel(State, c, p, valid, bfail))
    \/ \E env \in ContractTickEnvs : \E r \in periodic_check(State, env) : Commit(r)
    \/ ConfirmTransaction
    \/ CounterPartyBroadcasts

SpecContract == Init /\ [][NextContract]_vars

\* Whether the text holds the string of the error e.
Carries(error_message, e) == \E i \in DOMAIN error_message : error_message[i] = e

\* The store of r but for the contract k and the channel c.
SameBut(r, ks, cs) ==
    /\ \A x \in ContractIds \ ks : r.s.contracts[x] = contracts[x]
    /\ \A x \in ChanIds \ cs : r.s.channels[x] = channels[x]

\* C13: when the verification of an AcceptDlc for an Offered contract (a
\* SignDlc for an Accepted one) fails, the contract is stored as FailedAccept
\* (FailedSign) with the message received and the string of the error, and
\* the handler returns that error; on_accept_channel and on_sign_channel
\* store the channel the same way under the id of the channel being opened.
C13_FailedVerificationIsStored ==
    /\ \A k \in ContractIds, p \in Peers :
          /\ on_accept_message(State, k, p, TRUE).res = "Ok"
             => LET r == on_accept_message(State, k, p, FALSE)
                    failed == r.s.contracts[k]
                IN  /\ r.res \notin {"Ok", "InvalidState", "InvalidParameters"}
                    /\ failed.state = "FailedAccept"
                    /\ failed.message = Message("AcceptDlc", k, FALSE)
                    /\ failed.error_message = to_string(r.res)
                    /\ SameBut(r, {k}, {})
          /\ on_sign_message(State, k, p, TRUE, FALSE).res = "Ok"
             => LET r == on_sign_message(State, k, p, FALSE, FALSE)
                    failed == r.s.contracts[k]
                IN  /\ r.res \notin {"Ok", "InvalidState", "InvalidParameters"}
                    /\ failed.state = "FailedSign"
                    /\ failed.message = Message("SignDlc", k, FALSE)
                    /\ failed.error_message = to_string(r.res)
                    /\ SameBut(r, {k}, {})
    /\ \A c \in ChanIds, p \in Peers :
          /\ on_accept_channel(State, c, p, TRUE).res = "Ok"
             => LET r == on_accept_channel(State, c, p, FALSE)
                    failed == r.s.channels[c]
                IN  /\ r.res \notin {"Ok", "InvalidState", "InvalidParameters"}
                    /\ failed.kind = "FailedAccept"
                    /\ failed.channel_id = c
                    /\ failed.message = Message("AcceptChannel", c, FALSE)
                    /\ Carries(failed.error_message, r.res)
                    /\ SameBut(r, {}, {c})
          /\ on_sign_channel(State, c, p, TRUE, FALSE).res = "Ok"
             => LET r == on_sign_channel(State, c, p, FALSE, FALSE)
                    failed == r.s.channels[c]
                IN  /\ r.res \notin {"Ok", "InvalidState", "InvalidParameters"}
                    /\ failed.kind = "FailedSign"
                    /\ failed.channel_id = c
                    /\ failed.message = Message("SignChannel", c, FALSE)
                    /\ Carries(failed.error_message, r.res)
                    /\ SameBut(r, {}, {c})

\* A contract stored as FailedAccept beside a channel stored as FailedSign.
C13_Witness ==
    \E k \in ContractIds, c \in ChanIds :
        /\ contracts[k].state = "FailedAccept"
        /\ contracts[k].channel_id = "none"
        /\ contracts[k].message = Message("AcceptDlc", k, FALSE)
        /\ channels[c].kind = "FailedSign"
        /\ channels[c].message = Message("SignChannel", c, FALSE)

\* C14: an on-chain Offer whose contract id the store holds, and a channel
\* Offer whose temporary channel id the store holds, are refused with
\* InvalidParameters and change nothing, whatever the state of the entry;
\* the first offer with an id is accepted and stored as Offered.
C14_SecondOfferRefused ==
    /\ \A k \in ContractIds, p \in Peers :
          LET r == on_offer_message(State, k, p)
          IN  IF contracts[k].state # "None"
              THEN r.res = "InvalidParameters" /\ r.s = State
              ELSE /\ r.res = "Ok"
                   /\ r.s.contracts[k].state = "Offered"
                   /\ r.s.contracts[k].counter_party = p
                   /\ SameBut(r, {k}, {})
    /\ \A c \in ChanIds, k \in ContractIds, p \in Peers :
          LET r == on_offer_channel(State, c, k, p)
          IN  IF channels[c].kind # "None"
              THEN r.res = "InvalidParameters" /\ r.s = State
              ELSE /\ r.res = "Ok"
                   /\ r.s.channels[c].kind = "Offered"
                   /\ r.s.channels[c].counter_party = p
                   /\ r.s.contracts[k].state = "Offered"
                   /\ SameBut(r, {k}, {c})

\* A contract that was offered by a peer and has since been refunded, and a
\* signed channel that a peer offered: offers with their ids are refused.
C14_Witness ==
    \E k \in ContractIds, c \in ChanIds, p \in Peers :
        /\ contracts[k].state = "Refunded"
        /\ ~contracts[k].is_offer_party
        /\ channels[c].kind = "Signed"
        /\ on_offer_message(State, k, p).res = "InvalidParameters"
        /\ \A x \in ContractIds : on_offer_channel(State, c, x, p).res = "InvalidParameters"

\* C16: a Confirmed contract without a channel whose contract-info is
\* closable is moved to PreClosed with the attestations and the signed CET
\* by the reactor's check of confirmed contracts, also when the node refuses
\* the CET because another CET is in the mempool or in a block; it does not
\* stay Confirmed.
C16_ClosableContractLeavesConfirmed ==
    \A k \in ContractIds, env \in ContractTickEnvs :
        (/\ contracts[k].state = "Confirmed"
         /\ contracts[k].channel_id = "none"
         /\ k \in env.attested
         /\ get_transaction_confirmations(State, ContractCet(k)) < 1
         /\ k \in env.bfail => k \in Rivalled(State))
        => check_confirmed_contract(State, k, env).s.contracts[k]
               = PreClosed(contracts[k], Attestations(k), ContractCet(k))

\* C17: the reactor moves a contract to Refunded only if the contract has no
\* channel, no contract-info is closable in the tick and the lock time of the
\* refund transaction is not after now; it broadcasts the refund transaction
\* in that tick exactly when the transaction has no confirmation; a contract
\* whose refund lock time is after now is not stored as Refunded.
C17_RefundOnlyAfterLockTime ==
    /\ \A env \in ContractTickEnvs : \A r \in periodic_check(State, env) :
          \A k \in ContractIds :
              (r.s.contracts[k].state = "Refunded" /\ contracts[k].state # "Refunded")
              => /\ contracts[k].state \in {"Signed", "Confirmed"}
                 /\ contracts[k].channel_id = "none"
                 /\ k \notin env.attested
                 /\ lock_time(RefundTx(k)) <= env.now
                 /\ RefundTx(k) \in DOMAIN r.s.chain
    /\ \A env \in ContractTickEnvs, k \in ContractIds :
          contracts[k].state = "Confirmed"
          => LET r == check_refund(State, k, env)
                 confirmations == get_transaction_confirmations(State, RefundTx(k))
             IN  /\ lock_time(RefundTx(k)) > env.now => r.s = State /\ r.sent = {}
                 /\ r.res = "Ok" /\ lock_time(RefundTx(k)) <= env.now
                    => /\ r.s.contracts[k].state = "Refunded"
                       /\ RefundTx(k) \in r.sent <=> confirmations = 0

\* A refunded contract whose refund transaction is in a block.
C17_Witness ==
    \E k \in ContractIds :
        /\ contracts[k].state = "Refunded"
        /\ contracts[k].channel_id = "none"
        /\ get_transaction_confirmations(State, RefundTx(k)) > 0
        /\ ~(RivalCet(k) \in DOMAIN chain)

\* What on_accept and on_sign return for a message whose signatures verify.
AcceptResults(k) == {on_accept_message(State, k, p, TRUE) : p \in Peers}

SignResults(k) ==
    {on_sign_message(State, k, p, TRUE, bfail) : p \in Peers, bfail \in BOOLEAN}

\* C18 (as the code has it): every successful on_sign stores the contract as
\* Signed and broadcasts the fund transaction; every successful on_accept
\* stores the contract as Signed and returns the SignDlc, and broadcasts
\* nothing: the fund transaction is broadcast by the accepter, on the Sign.
C18_SignBroadcastsFundTx ==
    \A k \in ContractIds :
        /\ \A r \in SignResults(k) :
              r.res = "Ok"
              => /\ contracts[k].state = "Accepted"
                 /\ r.s.contracts[k].state = "Signed"
                 /\ FundTx(k) \in r.sent
                 /\ FundTx(k) \in DOMAIN r.s.chain
        /\ \A r \in AcceptResults(k) :
              r.res = "Ok"
              => /\ contracts[k].state = "Offered"
                 /\ r.s.contracts[k].state = "Signed"
                 /\ r.msg = "Sign"
                 /\ r.sent = {}
                 /\ r.s.chain = chain

\* A contract signed on the Sign of the counter party, its fund transaction
\* in the mempool.
C18_Witness ==
    \E k \in ContractIds :
        /\ contracts[k].state = "Signed"
        /\ contracts[k].channel_id = "none"
        /\ ~contracts[k].is_offer_party
        /\ FundTx(k) \in DOMAIN chain
        /\ \A tx \in DOMAIN chain : chain[tx] = 0

\* C18: every successful on_accept and every successful on_sign broadcasts
\* the fund transaction.
C18_AcceptAndSignBroadcastFundTx ==
    \A k \in ContractIds :
        \A r \in SignResults(k) \cup AcceptResults(k) :
            r.res = "Ok" => r.s.contracts[k].state = "Signed" /\ FundTx(k) \in r.sent

(***************************************************************************)
(* Offers that cross: the peer's offer arrives after we sent our own.      *)
(***************************************************************************)
\* The channels in which our own settle offer is pending.
SettleOfferPending ==
    {c \in SpecChans : channels[c].kind = "Signed" /\ channels[c].state.st = "SettledOffered"}

\* The channels in which our own renew offer is pending.
RenewOfferPending ==
    {c \in SpecChans : /\ channels[c].kind = "Signed"
                       /\ channels[c].state.st = "RenewOffered"
                       /\ channels[c].state.is_offer}

\* C19: on_settle_offer for a channel in SettledOffered returns a Reject and
\* leaves the stored channel, its state and roll_back_state included, as it
\* is; nothing else is written or broadcast.
C19_CrossingSettleOfferRejected ==
    \A c \in SettleOfferPending :
        LET r == on_settle_offer(State, c, channels[c].counter_party)
        IN  /\ r.res = "Ok"
            /\ r.msg = "Reject"
            /\ r.s.channels[c] = channels[c]
            /\ r.s.channels[c].state = channels[c].state
            /\ r.s.channels[c].roll_back_state = channels[c].roll_back_state
            /\ r.s = State
            /\ r.sent = {}

\* Our settle offer is pending, with the state to roll back to, and the
\* peer's settle offer is answered by a Reject.
C19_Witness ==
    \E c \in SettleOfferPending :
        /\ channels[c].roll_back_state.st = "Established"
        /\ on_settle_offer(State, c, channels[c].counter_party).msg = "Reject"

\* C20: on_renew_offer for a channel in RenewOffered with is_offer true
\* returns a Reject, stores no new contract and leaves the stored channel as
\* it is.
C20_CrossingRenewOfferRejected ==
    \A c \in RenewOfferPending :
        \A k \in ContractIds :
            LET r == on_renew_offer(State, c, k, channels[c].counter_party)
            IN  /\ r.res = "Ok"
                /\ r.msg = "Reject"
                /\ r.s.contracts = contracts
                /\ r.s.channels[c] = channels[c]
                /\ r.s = State

\* Our renew offer is pending, and the peer's renew offer, for another
\* contract than the one we offered, is answered by a Reject.
C20_Witness ==
    \E c \in RenewOfferPending :
        \E k \in ContractIds :
            /\ contracts[k].state # "Offered"
            /\ on_renew_offer(State, c, k, channels[c].counter_party).msg = "Reject"

(***************************************************************************)
(* Amounts: the collaterals, the payouts the channel states carry and the  *)
(* profit stored with a closed contract.  u64 and i64 are words of         *)
(* WordBits bits.                                                          *)
(***************************************************************************)
WordBits == 3

U64 == 0 .. (2^WordBits - 1)

\* x as i64, for x a u64.
as_i64(x) == IF x < 2^(WordBits - 1) THEN x ELSE x - 2^WordBits

\* The i64 a wrapping operation gives for the integer x.
wrapping(x) == ((x + 2^(WordBits - 1)) % 2^WordBits) - 2^(WordBits - 1)

\* The collateral of each party of a contract.
collateral == [offer |-> 1, accept |-> 2]

total_collateral == collateral.offer + collateral.accept

\* The payouts of our own calls.
OwnPayouts == 0 .. total_collateral

\* The payouts of a peer's messages, which carry any u64: nothing, the whole
\* collateral, one more, and the largest u64.
PeerPayouts == {0, total_collateral, total_collateral + 1, 2^WordBits - 1}

\* The profit that get_collaboratively_closed_contract computes, and whether
\* a subtraction left its range on the way: total_collateral - payout as
\* u64, own_payout as i64 - own_collateral as i64 as i64.
get_collaboratively_closed_contract_pnl(contract, payout, is_own_payout) ==
    LET own_collateral == IF contract.is_offer_party THEN collateral.offer
                          ELSE collateral.accept
        own_payout == IF is_own_payout THEN payout
                      ELSE (total_collateral - payout) % 2^WordBits
        pnl == as_i64(own_payout) - as_i64(own_collateral)
    IN  [pnl |-> wrapping(pnl),
         overflow |-> (~is_own_payout /\ payout > total_collateral) \/ pnl # wrapping(pnl)]

\* The profit of a contract closed by a CET: the CET of the model pays the
\* whole collateral to the offer party.
compute_pnl(contract, signed_cet) ==
    LET own_collateral == IF contract.is_offer_party THEN collateral.offer
                          ELSE collateral.accept
        own_payout == IF contract.is_offer_party THEN total_collateral ELSE 0
    IN  [pnl |-> wrapping(as_i64(own_payout) - as_i64(own_collateral)), overflow |-> FALSE]

\* is_own_payout as a flag that every call site sets.
is_own_payout_everywhere(site) == TRUE

\* The is_own_payout argument of each call of
\* get_collaboratively_closed_contract.
is_own_payout(site) == site # "process_watched_txs"

\* The payout each call hands over: counter_payout of
\* CollaborativeCloseOffered where a collaborative close ends, own_payout of
\* the state of the handshake elsewhere.
payout_at(site, state) ==
    IF site \in {"accept_collaborative_close", "process_watched_txs"}
    THEN state.counter_payout
    ELSE state.own_payout

\* The payouts the updater keeps in the state it moves to: payout is the
\* amount of the call or of the message.
with_payouts(before, after, payout) ==
    CASE after.st = "SettledOffered" -> [counter_payout |-> payout] @@ after
      [] after.st = "SettledReceived" -> [own_payout |-> payout] @@ after
      [] after.st = "SettledAccepted" -> [own_payout |-> before.own_payout] @@ after
      [] after.st = "SettledConfirmed" ->
           [own_payout |-> total_collateral - before.counter_payout] @@ after
      [] after.st = "RenewOffered" ->
           IF after.is_offer THEN [counter_payout |-> payout] @@ after
           ELSE [own_payout |-> payout] @@ after
      [] after.st = "RenewAccepted" -> [own_payout |-> before.own_payout] @@ after
      [] after.st = "RenewConfirmed" ->
           [own_payout |-> total_collateral - before.counter_payout] @@ after
      [] after.st = "CollaborativeCloseOffered" -> [counter_payout |-> payout] @@ after
      [] OTHER -> after

\* The results of a call with the amounts in them: the payouts in the state
\* of the channel and the profit in the contracts the call closes.  Where a
\* subtraction leaves its range the build decides: the value wraps, or the
\* call panics and stores nothing.
with_amounts(s, r, site, channel_id, payout) ==
    LET before == s.channels[channel_id]
        after == r.s.channels[channel_id]
        closed == {k \in ContractIds : /\ s.contracts[k].state # "Closed"
                                       /\ r.s.contracts[k].state = "Closed"}
        collaborative == \/ site # "process_watched_txs"
                         \/ /\ before.kind = "Signed"
                            /\ before.state.st = "CollaborativeCloseOffered"
                            /\ after.kind = "CollaborativelyClosed"
        p(k) == IF collaborative
                THEN get_collaboratively_closed_contract_pnl(
                         s.contracts[k], payout_at(site, before.state), is_own_payout(site))
                ELSE compute_pnl(s.contracts[k], s.contracts[k].signed_cet)
        channels1 == IF /\ before.kind = "Signed"
                        /\ after.kind = "Signed"
                        /\ after.state # before.state
                     THEN [r.s.channels EXCEPT
                             ![channel_id].state = with_payouts(before.state, @, payout)]
                     ELSE r.s.channels
        contracts1 == [k \in ContractIds |->
                         IF k \in closed THEN [pnl |-> p(k).pnl] @@ r.s.contracts[k]
                         ELSE r.s.contracts[k]]
        wrapped == [r EXCEPT !.s.channels = channels1, !.s.contracts = contracts1]
    IN  IF \E k \in closed : p(k).overflow THEN {wrapped, [r EXCEPT !.s = s]}
        ELSE {wrapped}

CommitAmounts(site, channel_id, payout, r) ==
    \E o \in with_amounts(State, r, site, channel_id, payout) : Commit(o)

NextPnl ==
    \/ \E c \in FreshChannelIds(SpecChans), k \in FreshContractIds, p \in CounterParties :
          Commit(offer_channel(State, c, k, p))
    \/ \E c \in SpecChans, k \in FreshContractIds, p \in CounterParties :
          Commit(on_offer_channel(State, c, k, p))
    \/ \E c \in SpecChans : Commit(accept_channel(State, c))
    \/ \E c \in SpecChans, p \in CounterParties :
          Commit(on_accept_channel(State, c, p, TRUE))
    \/ \E c \in SpecChans, p \in CounterParties :
          Commit(on_sign_channel(State, c, p, TRUE, FALSE))
    \/ \E c \in SpecChans, payout \in OwnPayouts :
          CanUpdate(c) /\ CommitAmounts("settle_offer", c, payout, settle_offer(State, c))
    \/ \E c \in SpecChans, p \in CounterParties, payout \in PeerPayouts :
          /\ CanUpdate(c)
          /\ CommitAmounts("on_settle_offer", c, payout, on_settle_offer(State, c, p))
    \/ \E c \in SpecChans :
          CommitAmounts("accept_settle_offer", c, 0, accept_settle_offer(State, c))
    \/ \E c \in SpecChans, p \in CounterParties :
          CommitAmounts("on_settle_accept", c, 0, on_settle_accept(State, c, p, TRUE))
    \/ \E c \in SpecChans, p \in CounterParties :
          CommitAmounts("on_settle_confirm", c, 0, on_settle_confirm(State, c, p, TRUE))
    \/ \E c \in SpecChans, p \in CounterParties :
          CommitAmounts("on_settle_finalize", c, 0, on_settle_finalize(State, c, p, TRUE))
    \/ \E c \in SpecChans, k \in FreshContractIds, payout \in OwnPayouts :
          CanUpdate(c) /\ CommitAmounts("renew_offer", c, payout, renew_offer(State, c, k))
    \/ \E c \in SpecChans, k \in FreshContractIds, p \in CounterParties, payout \in PeerPayouts :
          /\ CanUpdate(c)
          /\ CommitAmounts("on_renew_offer", c, payout, on_renew_offer(State, c, k, p))
    \/ \E c \in SpecChans :
          CommitAmounts("accept_renew_offer", c, 0, accept_renew_offer(State, c))
    \/ \E c \in SpecChans, p \in CounterParties :
          CommitAmounts("on_renew_accept", c, 0, on_renew_accept(State, c, p, TRUE))
    \/ \E c \in SpecChans, p \in CounterParties :
          CommitAmounts("on_renew_confirm", c, 0, on_renew_confirm(State, c, p, TRUE))
    \/ \E c \in SpecChans, p \in CounterParties :
          CommitAmounts("on_renew_finalize", c, 0, on_renew_finalize(State, c, p, TRUE))
    \/ \E c \in SpecChans, p \in CounterParties :
          CommitAmounts("on_renew_revoke", c, 0, on_renew_revoke(State, c, p, TRUE))
    \/ \E c \in SpecChans, payout \in OwnPayouts :
          CommitAmounts("offer_collaborative_close", c, payout,
                        offer_collaborative_close(State, c))
    \/ \E c \in SpecChans, p \in CounterParties, payout \in PeerPayouts :
          CommitAmounts("on_collaborative_close_offer", c, payout,
                        on_collaborative_close_offer(State, c, p))
    \/ \E c \in SpecChans :
          CommitAmounts("accept_collaborative_close", c, 0,
                        accept_collaborative_close(State, c, FALSE))
    \/ \E c \in SpecChans, p \in CounterParties :
          CommitAmounts("on_reject", c, 0, on_reject(State, c, p))
    \/ \E c \in SpecChans, env \in TickEnvs({{}}, {0}) : \E r \in periodic_check(State, env) :
          CommitAmounts("process_watched_txs", c, 0, r)
    \/ ConfirmTransaction
    \/ BuryTransaction
    \/ CounterPartyPublishes

SpecPnl == Init /\ [][NextPnl]_vars

\* The payout that is ours when a contract of a channel in sub-state st is
\* closed: the own_payout of a settle or renew handshake; in a collaborative
\* close the counter_payout of the offer, which is the peer's when we made the
\* offer and ours when the peer made it.
OwnPayoutOf(st) ==
    CASE st.st \in {"SettledAccepted", "SettledConfirmed", "RenewAccepted", "RenewConfirmed"} ->
           st.own_payout
      [] st.st = "CollaborativeCloseOffered" ->
           IF st.is_offer THEN total_collateral - st.counter_payout ELSE st.counter_payout

\* C15: every contract stored as Closed has pnl = own_payout -
\* own_collateral in signed arithmetic of the word width; for the closes of
\* settle, renew and collaborative close own_payout is the payout of the
\* channel state when that is our payout and total_collateral - payout when
\* it is the counter party's, own_collateral is the offer collateral iff we
\* are the offer party, and total_collateral - payout is taken of no payout
\* above total_collateral, whatever payouts the peer sends.
C15_ClosedPnl ==
    [][\A k \in ContractIds :
          (contracts[k].state # "Closed" /\ contracts'[k].state = "Closed")
          => LET c == contracts[k].channel_id
                 st == channels[c].state
                 handshake == /\ channels[c].kind = "Signed"
                              /\ channels'[c].kind \in {"Signed", "CollaborativelyClosed"}
                              /\ st.st \in {"SettledAccepted", "SettledConfirmed",
                                            "RenewAccepted", "RenewConfirmed",
                                            "CollaborativeCloseOffered"}
                 own_collateral == IF contracts[k].is_offer_party THEN collateral.offer
                                   ELSE collateral.accept
                 own_payout == IF handshake THEN OwnPayoutOf(st)
                               ELSE IF contracts[k].is_offer_party THEN total_collateral
                               ELSE 0
             IN  /\ own_payout \in U64
                 /\ handshake /\ st.st = "CollaborativeCloseOffered" /\ st.is_offer
                    => st.counter_payout <= total_collateral
                 /\ contracts'[k].pnl = wrapping(as_i64(own_payout) - as_i64(own_collateral))]_vars

\* A contract closed with its profit, in a channel in which the peer made us
\* store a payout above the collateral of the channel.
C15_Witness ==
    \E k \in ContractIds, c \in SpecChans :
        /\ contracts[k].state = "Closed"
        /\ contracts[k].pnl \in {wrapping(x) : x \in U64}
        /\ channels[c].kind = "Signed"
        /\ channels[c].state.st = "CollaborativeCloseOffered"
        /\ ~channels[c].state.is_offer
        /\ channels[c].state.counter_payout > total_collateral

(***************************************************************************)
(* Reject.                                                                 *)
(***************************************************************************)
\* C21: on a Reject from the channel's counter party, an Offered channel is
\* stored as Cancelled and its contract as Rejected, the funding inputs of
\* the contract going back to the wallet; a Signed channel in RenewOffered is
\* rolled back to its roll_back_state and the offered contract stored as
\* Rejected; a channel that is neither Offered nor Signed gives InvalidState
\* and no change; an unknown channel id gives Ok and no change.
C21_RejectRollsBack ==
    \A c \in ChanIds :
        LET channel == channels[c]
            r == on_reject(State, c, channel.counter_party)
            k == IF channel.kind = "Offered" THEN channel.contract_id
                 ELSE channel.state.offered_contract_id
            written == /\ r.res = "Ok"
                       /\ r.s.contracts = [contracts EXCEPT ![k].state = "Rejected"]
                       /\ r.s.mon = chain_monitor
                       /\ r.s.pmon = persisted_monitor
                       /\ r.s.chain = chain
                       /\ r.sent = {}
                       /\ \A other \in ChanIds \ {c} : r.s.channels[other] = channels[other]
        IN  CASE channel.kind = "None" ->
                   LET unknown == on_reject(State, c, "p1")
                   IN  unknown.res = "Ok" /\ unknown.s = State /\ unknown.unreserved = {}
              [] channel.kind = "Offered" ->
                   /\ written
                   /\ contracts[k].state = "Offered"
                   /\ r.s.channels[c] = [channel EXCEPT !.kind = "Cancelled"]
                   /\ r.unreserved = {k}
              [] channel.kind = "Signed" /\ channel.state.st = "RenewOffered" ->
                   /\ written
                   /\ contracts[k].state = "Offered"
                   /\ r.s.channels[c].kind = "Signed"
                   /\ r.s.channels[c].state = channel.roll_back_state
                   /\ r.unreserved = {}
              [] channel.kind = "Signed" /\ channel.state.st # "RenewOffered" ->
                   r.unreserved = {} /\ r.s.contracts = contracts
              [] OTHER ->
                   r.res = "InvalidState" /\ r.s = State /\ r.unreserved = {}

\* A renew offer is pending beside the state to roll back to, and the Reject
\* of the peer is taken.
C21_Witness ==
    \E c \in SpecChans :
        /\ channels[c].kind = "Signed"
        /\ channels[c].state.st = "RenewOffered"
        /\ channels[c].roll_back_state.st \in {"Established", "Settled"}
        /\ contracts[channels[c].state.offered_contract_id].state = "Offered"
        /\ on_reject(State, c, channels[c].counter_party).res = "Ok"

(***************************************************************************)
(* Collaborative close.                                                    *)
(***************************************************************************)
\* The watched transactions of channel c tagged CollaborativeClose that are
\* in a block.
ConfirmedCloseTxs(c) ==
    {t \in DOMAIN chain_monitor.watched_tx :
        /\ chain_monitor.watched_tx[t].channel_info = ChannelInfo(c, CollaborativeClose)
        /\ Confirmed(t)}

\* C22: offer_collaborative_close registers the close transaction tagged
\* CollaborativeClose for the channel before it returns the offer;
\* accept_collaborative_close broadcasts the close transaction and stores the
\* channel as CollaborativelyClosed; and on the side of the offerer, when the
\* close transaction is confirmed, the tick stores the contract of an
\* Established roll-back state as Closed, the channel as
\* CollaborativelyClosed, and removes every monitor entry of the channel.
C22_CollaborativeCloseCompletes ==
    \A c \in SpecChans :
        LET channel == channels[c]
            offer == offer_collaborative_close(State, c)
            accept == accept_collaborative_close(State, c, FALSE)
        IN  /\ offer.res = "Ok"
               => /\ offer.msg = "CollaborativeCloseOffer"
                  /\ offer.s.channels[c].state.st = "CollaborativeCloseOffered"
                  /\ Tagged(offer.s.mon, offer.s.channels[c].state.close_tx, c,
                            CollaborativeClose)
                  /\ offer.s.pmon = offer.s.mon
            /\ accept.res = "Ok"
               => /\ channel.state.close_tx \in accept.sent
                  /\ channel.state.close_tx \in DOMAIN accept.s.chain
                  /\ accept.s.channels[c].kind = "CollaborativelyClosed"
                  /\ accept.s.channels[c].closing_txid = channel.state.close_tx
            /\ (channel.kind = "Signed" /\ ConfirmedCloseTxs(c) # {})
               => \A env \in TickEnvs({{}}, {0}) : \A r \in periodic_check(State, env) :
                     /\ r.s.channels[c].kind = "CollaborativelyClosed"
                     /\ r.s.channels[c].closing_txid \in ConfirmedCloseTxs(c)
                     /\ MonitorEntriesOf(r.s.mon, c) = {}
                     /\ channel.roll_back_state.st = "Established"
                        => r.s.contracts[channel.roll_back_state.signed_contract_id].state
                              = "Closed"

(***************************************************************************)
(* The deadlines of the handshakes.  The updater stores in each state that *)
(* waits for the peer the time of the call plus PEER_TIMEOUT; the clock is *)
(* the wall clock of the node, read at each call.                          *)
(***************************************************************************)
Times == {0, PEER_TIMEOUT + 1}

\* The states the updater stores with a timeout.
TimedStates == TimedOutStates \cup {"CollaborativeCloseOffered"}

\* The result of a call made at time now, with the deadline in the state
\* the call moved a channel to.
with_timeout(s, r, now) ==
    LET moved(c) == /\ r.s.channels[c].kind = "Signed"
                    /\ r.s.channels[c].state.st \in TimedStates
                    /\ \/ s.channels[c].kind # "Signed"
                       \/ s.channels[c].state # r.s.channels[c].state
        timed(channel) ==
            [channel EXCEPT !.state = [timeout |-> now + PEER_TIMEOUT] @@ channel.state]
    IN  [r EXCEPT !.s.channels = [c \in ChanIds |->
            IF moved(c) THEN timed(r.s.channels[c]) ELSE r.s.channels[c]]]

CommitTimed(now, r) == Commit(with_timeout(State, r, now))

NextTimeout ==
    \/ \E c \in FreshChannelIds(SpecChans), k \in FreshContractIds, p \in CounterParties :
          Commit(offer_channel(State, c, k, p))
    \/ \E c \in SpecChans, p \in CounterParties :
          Commit(on_accept_channel(State, c, p, TRUE))
    \/ \E c \in SpecChans, now \in Times :
          CanUpdate(c) /\ CommitTimed(now, settle_offer(State, c))
    \/ \E c \in SpecChans, p \in CounterParties :
          CanUpdate(c) /\ Commit(on_settle_offer(State, c, p))
    \/ \E c \in SpecChans, now \in Times : CommitTimed(now, accept_settle_offer(State, c))
    \/ \E c \in SpecChans, p \in CounterParties, now \in Times :
          CommitTimed(now, on_settle_accept(State, c, p, TRUE))
    \/ \E c \in SpecChans, p \in CounterParties :
          Commit(on_settle_confirm(State, c, p, TRUE))
    \/ \E c \in SpecChans, p \in CounterParties :
          Commit(on_settle_finalize(State, c, p, TRUE))
    \/ \E c \in SpecChans, k \in FreshContractIds, now \in Times :
          CanUpdate(c) /\ CommitTimed(now, renew_offer(State, c, k))
    \/ \E c \in SpecChans, k \in FreshContractIds, p \in CounterParties, now \in Times :
          CanUpdate(c) /\ CommitTimed(now, on_renew_offer(State, c, k, p))
    \/ \E c \in SpecChans, now \in Times : CommitTimed(now, accept_renew_offer(State, c))
    \/ \E c \in SpecChans, p \in CounterParties, now \in Times :
          CommitTimed(now, on_renew_accept(State, c, p, TRUE))
    \/ \E c \in SpecChans, p \in CounterParties, now \in Times :
          CommitTimed(now, on_renew_confirm(State, c, p, TRUE))
    \/ \E c \in SpecChans, p \in CounterParties :
          Commit(on_renew_finalize(State, c, p, TRUE))
    \/ \E c \in SpecChans, p \in CounterParties :
          Commit(on_renew_revoke(State, c, p, TRUE))
    \/ \E c \in SpecChans, now \in Times :
          CommitTimed(now, offer_collaborative_close(State, c))
    \/ \E c \in SpecChans, p \in CounterParties : Commit(on_reject(State, c, p))
    \/ \E env \in TickEnvs({{}}, Times) : \E r \in periodic_check(State, env) : Commit(r)
    \/ ConfirmTransaction
    \/ CounterPartyPublishes

SpecTimeout == Init /\ [][NextTimeout]_vars

\* Whether the channel waits in state st with its deadline before now.
TimedOut(c, st, now) ==
    /\ channels[c].kind = "Signed"
    /\ channels[c].state.st = st
    /\ timeout_of(channels[c].state) < now

\* Whether the tick finds no watched transaction confirmed.
NothingConfirmed(env) ==
    confirmed_txs(check_transaction_confirmations(State, env).mon) = {}

ForceClosed(channel) ==
    \/ channel.kind = "Signed" /\ channel.state.st \in {"Closing", "SettledClosing"}
    \/ channel.kind \in {"SettledClosing", "Closed", "CounterClosed", "ClosedPunished"}

\* C24: after offer_collaborative_close, when the counter party does not
\* broadcast the close transaction, the channel is force closed by the tick
\* that runs once the peer timeout has elapsed.
C24_CloseOfferTimesOut ==
    \A c \in SpecChans, env \in TickEnvs({{}}, Times) :
        /\ TimedOut(c, "CollaborativeCloseOffered", env.now)
        /\ channels[c].state.is_offer
        /\ channels[c].state.close_tx \notin DOMAIN chain
        => \A r \in periodic_check(State, env) : ForceClosed(r.s.channels[c])

(***************************************************************************)
(* The chain-monitor mutex.  The calls of the manager as the sequences of  *)
(* their steps that take the mutex, drop it, work on the monitor or block  *)
(* on a collaborator; a step is <<kind, operation>>.  The guard of         *)
(* self.chain_monitor.lock().unwrap() written inside a statement lives to  *)
(* the end of that statement; the guard bound by a let in a block lives to *)
(* the end of the block.  Each loop is taken once.  Threads of the node    *)
(* run the calls side by side; pending holds the call of each thread, the  *)
(* step it is about to take and whether it holds the mutex.                *)
(***************************************************************************)
Blocking == {"store", "blockchain", "oracle", "broadcast"}

check_transaction_confirmations_locked ==
    <<<<"lock", "chain_monitor.lock">>, <<"monitor", "get_watched_txs">>,
      <<"monitor", "get_watched_txos">>,
      <<"blockchain", "get_transaction_confirmations">>,
      <<"blockchain", "get_transaction">>, <<"monitor", "confirm_tx">>,
      <<"blockchain", "get_txo_confirmations">>, <<"blockchain", "get_transaction">>,
      <<"monitor", "confirm_txo">>, <<"unlock", "drop">>>>

check_transaction_confirmations_steps ==
    <<<<"lock", "chain_monitor.lock">>, <<"monitor", "get_watched_txs">>,
      <<"monitor", "get_watched_txos">>, <<"unlock", "drop">>,
      <<"blockchain", "get_transaction_confirmations">>,
      <<"blockchain", "get_transaction">>,
      <<"lock", "chain_monitor.lock">>, <<"monitor", "confirm_tx">>, <<"unlock", "drop">>,
      <<"blockchain", "get_txo_confirmations">>, <<"blockchain", "get_transaction">>,
      <<"lock", "chain_monitor.lock">>, <<"monitor", "confirm_txo">>, <<"unlock", "drop">>>>

check_for_watched_tx_steps ==
    <<<<"lock", "chain_monitor.lock">>, <<"monitor", "confirmed_txs">>, <<"unlock", "drop">>,
      <<"store", "get_channel">>, <<"store", "upsert_channel">>,
      <<"lock", "chain_monitor.lock">>, <<"store", "persist_chain_monitor">>,
      <<"unlock", "drop">>>>

offer_collaborative_close_steps ==
    <<<<"store", "get_channel">>,
      <<"lock", "chain_monitor.lock">>, <<"monitor", "add_tx">>, <<"unlock", "drop">>,
      <<"store", "upsert_channel">>,
      <<"lock", "chain_monitor.lock">>, <<"store", "persist_chain_monitor">>,
      <<"unlock", "drop">>>>

try_finalize_closing_established_channel_steps ==
    <<<<"blockchain", "get_transaction_confirmations">>, <<"store", "get_contract">>,
      <<"oracle", "get_attestation">>,
      <<"blockchain", "get_transaction_confirmations">>, <<"broadcast", "send_transaction">>,
      <<"lock", "chain_monitor.lock">>, <<"monitor", "cleanup_channel">>,
      <<"unlock", "drop">>,
      <<"store", "upsert_channel">>>>

\* try_confirm_claim_tx once the claim transaction is confirmed.
try_confirm_claim_tx_steps ==
    <<<<"blockchain", "get_transaction_confirmations">>,
      <<"lock", "chain_monitor.lock">>, <<"monitor", "cleanup_channel">>,
      <<"unlock", "drop">>,
      <<"lock", "chain_monitor.lock">>, <<"monitor", "cleanup_channel">>,
      <<"unlock", "drop">>,
      <<"store", "upsert_channel">>>>

\* The SettleTx branch of process_watched_txs.
process_watched_txs_settle_tx_steps ==
    <<<<"store", "get_channel">>,
      <<"lock", "chain_monitor.lock">>,
      <<"monitor", "did_we_offer_last_channel_settlement">>, <<"unlock", "drop">>,
      <<"store", "upsert_channel">>>>

\* finalize_force_close_sub_channels taking the mutex again in the argument
\* of persist_chain_monitor, as the calls of the manager do, with its guard
\* still alive.
finalize_force_close_sub_channels_relock ==
    <<<<"store", "get_sub_channel">>, <<"blockchain", "get_transaction_confirmations">>,
      <<"broadcast", "send_transaction">>,
      <<"store", "get_channel">>, <<"broadcast", "send_transaction">>,
      <<"lock", "chain_monitor.lock">>, <<"monitor", "remove_tx">>, <<"unlock", "drop">>,
      <<"store", "upsert_channel">>,
      <<"lock", "chain_monitor.lock">>, <<"store", "persist_chain_monitor">>,
      <<"unlock", "drop">>,
      <<"broadcast", "force_close_channel">>,
      <<"lock", "chain_monitor.lock">>, <<"monitor", "cleanup_channel">>,
      <<"lock", "chain_monitor.lock">>, <<"store", "persist_chain_monitor">>,
      <<"unlock", "drop">>,
      <<"store", "upsert_sub_channel">>, <<"unlock", "drop">>>>

\* finalize_force_close_sub_channels of the sub channel manager, with the
\* force_close_sub_channel of the manager it calls: its guard is bound by a
\* let and lives to the end of the function.
finalize_force_close_sub_channels_steps ==
    <<<<"store", "get_sub_channel">>, <<"blockchain", "get_transaction_confirmations">>,
      <<"broadcast", "send_transaction">>,
      <<"store", "get_channel">>, <<"broadcast", "send_transaction">>,
      <<"lock", "chain_monitor.lock">>, <<"monitor", "remove_tx">>, <<"unlock", "drop">>,
      <<"store", "upsert_channel">>,
      <<"lock", "chain_monitor.lock">>, <<"store", "persist_chain_monitor">>,
      <<"unlock", "drop">>,
      <<"broadcast", "force_close_channel">>,
      <<"lock", "chain_monitor.lock">>, <<"monitor", "cleanup_channel">>,
      <<"store", "persist_chain_monitor">>, <<"store", "upsert_sub_channel">>,
      <<"unlock", "drop">>>>

\* The steps of a call.
StepsOf(call) ==
    CASE call = "check_transaction_confirmations" -> check_transaction_confirmations_steps
      [] call = "check_for_watched_tx" -> check_for_watched_tx_steps
      [] call = "offer_collaborative_close" -> offer_collaborative_close_steps
      [] call = "try_finalize_closing_established_channel" ->
            try_finalize_closing_established_channel_steps
      [] call = "try_confirm_claim_tx" -> try_confirm_claim_tx_steps
      [] call = "process_watched_txs_settle_tx" -> process_watched_txs_settle_tx_steps
      [] call = "finalize_force_close_sub_channels" ->
            finalize_force_close_sub_channels_steps

Calls ==
    {"check_transaction_confirmations", "check_for_watched_tx",
     "offer_collaborative_close", "try_finalize_closing_established_channel"}

\* The step a running call is about to take.
StepAt(t) == StepsOf(t.call)[t.pc]

TakeStep(t, locked) ==
    LET rest == pending \ {t}
    IN  /\ pending' = IF t.pc = Len(StepsOf(t.call)) THEN rest
                      ELSE rest \cup {[t EXCEPT !.pc = @ + 1, !.locked = locked]}
        /\ UNCHANGED <<contracts, channels, chain_monitor, persisted_monitor, chain>>

StartCall ==
    \E thread \in Threads, call \in Calls :
        /\ \A t \in pending : t.thread # thread
        /\ pending' = pending \cup {[thread |-> thread, call |-> call, pc |-> 1,
                                     locked |-> FALSE]}
        /\ UNCHANGED <<contracts, channels, chain_monitor, persisted_monitor, chain>>

\* Mutex::lock blocks while another thread holds the guard.
Lock ==
    \E t \in pending :
        /\ StepAt(t)[1] = "lock"
        /\ \A o \in pending : ~o.locked
        /\ TakeStep(t, TRUE)

Unlock == \E t \in pending : StepAt(t)[1] = "unlock" /\ TakeStep(t, FALSE)

MonitorStep == \E t \in pending : StepAt(t)[1] = "monitor" /\ TakeStep(t, t.locked)

BlockingStep == \E t \in pending : StepAt(t)[1] \in Blocking /\ TakeStep(t, t.locked)

NextLock == StartCall \/ Lock \/ Unlock \/ MonitorStep \/ BlockingStep

SpecLock == Init /\ [][NextLock]_vars

EntriesTagged(m, c, kinds) ==
    {t \in DOMAIN m.watched_tx :
        /\ m.watched_tx[t].channel_info.channel_id = c
        /\ m.watched_tx[t].channel_info.tx_type.tag \in kinds}

AtMostOne(S) == \A x \in S, y \in S : x = y

Byte == 0..255

ReadOk(v, rest) == [ok |-> TRUE, v |-> v, rest |-> rest]

DecodeError(e) == [ok |-> FALSE, err |-> e]

\* The position of x in the sequence that lists the values of a field.
IndexOf(names, x) == CHOOSE i \in 1..Len(names) : names[i] = x

u8_read(bytes) ==
    IF bytes = <<>> THEN DecodeError("ShortRead") ELSE ReadOk(Head(bytes), Tail(bytes))

bool_write(b) == IF b THEN <<1>> ELSE <<0>>

\* A read that went well hands its value and the bytes left to the reads that
\* follow; a failed one is the result of the whole, as with the ? operator.
Then(r, Next_read(_)) ==
    CHOOSE out \in {IF x.ok THEN Next_read(x) ELSE x : x \in {r}} : TRUE

bool_read(bytes) ==
    Then(u8_read(bytes), LAMBDA id :
        IF id.v \in {0, 1} THEN ReadOk(id.v = 1, id.rest)
        ELSE DecodeError("InvalidValue"))

\* Big endian, w bytes.
RECURSIVE be_write(_, _)
be_write(n, w) == IF w = 0 THEN <<>> ELSE Append(be_write(n \div 256, w - 1), n % 256)

RECURSIVE be_value(_, _)
be_value(bytes, w) == IF w = 0 THEN 0 ELSE be_value(bytes, w - 1) * 256 + bytes[w]

be_read(bytes, w) ==
    IF Len(bytes) < w THEN DecodeError("ShortRead")
    ELSE ReadOk(be_value(bytes, w), SubSeq(bytes, w + 1, Len(bytes)))

u64_write(n) == be_write(n, 8)

u64_read(bytes) == be_read(bytes, 8)

TxOwners == <<"none", "c1", "c2", "k1", "k2">>

TxKinds ==
    <<"none", "fund", "cet", "refund", "rival_cet", "buffer", "settle", "close", "punish",
      "claim">>

tx_write(tx) == <<IndexOf(TxOwners, tx.ch), IndexOf(TxKinds, tx.kind), tx.idx>>

tx_read(bytes) ==
    IF Len(bytes) < 3 THEN DecodeError("ShortRead")
    ELSE IF bytes[1] \notin DOMAIN TxOwners \/ bytes[2] \notin DOMAIN TxKinds
    THEN DecodeError("InvalidValue")
    ELSE ReadOk(Tx(TxOwners[bytes[1]], TxKinds[bytes[2]], bytes[3]),
                SubSeq(bytes, 4, Len(bytes)))

channel_id_write(c) == <<IndexOf(TxOwners, c)>>

channel_id_read(bytes) ==
    Then(u8_read(bytes), LAMBDA id :
        IF id.v \notin DOMAIN TxOwners THEN DecodeError("InvalidValue")
        ELSE ReadOk(TxOwners[id.v], id.rest))

Signers == <<"own", "counter">>

write_ecdsa_adaptor_signature(sig) == <<IndexOf(Signers, sig.signer)>> \o tx_write(sig.tx)

read_ecdsa_adaptor_signature(bytes) ==
    Then(u8_read(bytes), LAMBDA id :
    Then(tx_read(id.rest), LAMBDA tx :
        IF id.v \notin DOMAIN Signers THEN DecodeError("InvalidValue")
        ELSE ReadOk(AdaptorSig(Signers[id.v], tx.v), tx.rest)))

OutPoint_write(o) == tx_write(o.txid) \o be_write(o.vout, 4)

OutPoint_read(bytes) ==
    Then(tx_read(bytes), LAMBDA txid :
    Then(be_read(txid.rest, 4), LAMBDA vout :
        ReadOk(OutPoint(txid.v, vout.v), vout.rest)))

\* impl_dlc_writeable_enum!(RevokedTxType,;;;(0, Buffer), (1, Settle), (2, Split))
RevokedTxType_write(t) ==
    CASE t = "Buffer" -> <<0>>
      [] t = "Settle" -> <<1>>
      [] t = "Split" -> <<2>>

RevokedTxType_read(bytes) ==
    Then(u8_read(bytes), LAMBDA id :
        CASE id.v = 0 -> ReadOk("Buffer", id.rest)
          [] id.v = 1 -> ReadOk("Settle", id.rest)
          [] id.v = 2 -> ReadOk("Split", id.rest)
          [] OTHER -> DecodeError("UnknownRequiredFeature"))

\* TxType::write with SettleTx2 under the tag of SettleTx, as before the
\* variant was introduced.
TxType_write_legacy(t) ==
    CASE t.tag = "Revoked" ->
           <<0>> \o u64_write(t.update_idx)
                 \o write_ecdsa_adaptor_signature(t.own_adaptor_signature)
                 \o bool_write(t.is_offer) \o RevokedTxType_write(t.revoked_tx_type)
      [] t.tag = "SettleTx2" -> <<4>>
      [] t.tag = "BufferTx" -> <<1>>
      [] t.tag = "CollaborativeClose" -> <<2>>
      [] t.tag = "SplitTx" -> <<3>>
      [] t.tag = "SettleTx" -> <<4>>
      [] t.tag = "Cet" -> <<5>>

TxType_write(t) ==
    CASE t.tag = "Revoked" ->
           <<0>> \o u64_write(t.update_idx)
                 \o write_ecdsa_adaptor_signature(t.own_adaptor_signature)
                 \o bool_write(t.is_offer) \o RevokedTxType_write(t.revoked_tx_type)
      [] t.tag = "SettleTx2" -> <<6>> \o bool_write(t.is_offer)
      [] t.tag = "BufferTx" -> <<1>>
      [] t.tag = "CollaborativeClose" -> <<2>>
      [] t.tag = "SplitTx" -> <<3>>
      [] t.tag = "SettleTx" -> <<4>>
      [] t.tag = "Cet" -> <<5>>

TxType_read(bytes) ==
    Then(u8_read(bytes), LAMBDA id :
        CASE id.v = 0 ->
               Then(u64_read(id.rest), LAMBDA update_idx :
               Then(read_ecdsa_adaptor_signature(update_idx.rest),
                    LAMBDA own_adaptor_signature :
               Then(bool_read(own_adaptor_signature.rest), LAMBDA is_offer :
               Then(RevokedTxType_read(is_offer.rest), LAMBDA revoked_tx_type :
                   ReadOk(Revoked(update_idx.v, own_adaptor_signature.v, is_offer.v,
                                  revoked_tx_type.v), revoked_tx_type.rest)))))
          [] id.v = 6 ->
               Then(bool_read(id.rest), LAMBDA is_offer :
                   ReadOk(SettleTx2(is_offer.v), is_offer.rest))
          [] id.v = 1 -> ReadOk(BufferTx, id.rest)
          [] id.v = 2 -> ReadOk(CollaborativeClose, id.rest)
          [] id.v = 3 -> ReadOk(SplitTx, id.rest)
          [] id.v = 4 -> ReadOk(SettleTx, id.rest)
          [] id.v = 5 -> ReadOk(Cet, id.rest)
          [] OTHER -> DecodeError("UnknownRequiredFeature"))

\* impl_dlc_writeable!(ChannelInfo, { (channel_id, writeable), (tx_type, writeable) })
ChannelInfo_write(channel_info) ==
    channel_id_write(channel_info.channel_id) \o TxType_write(channel_info.tx_type)

ChannelInfo_read(bytes) ==
    Then(channel_id_read(bytes), LAMBDA channel_id :
    Then(TxType_read(channel_id.rest), LAMBDA tx_type :
        ReadOk(ChannelInfo(channel_id.v, tx_type.v), tx_type.rest)))

WatchState_write(ws) ==
    CASE ws.state = "Registered" -> <<0>> \o ChannelInfo_write(ws.channel_info)
      [] ws.state = "Confirmed" ->
           <<1>> \o ChannelInfo_write(ws.channel_info) \o tx_write(ws.transaction)

WatchState_read(bytes) ==
    Then(u8_read(bytes), LAMBDA id :
        CASE id.v = 0 ->
               Then(ChannelInfo_read(id.rest), LAMBDA channel_info :
                   ReadOk(WatchStateNew(channel_info.v), channel_info.rest))
          [] id.v = 1 ->
               Then(ChannelInfo_read(id.rest), LAMBDA channel_info :
               Then(tx_read(channel_info.rest), LAMBDA transaction :
                   ReadOk([state |-> "Confirmed", channel_info |-> channel_info.v,
                           transaction |-> transaction.v], transaction.rest)))
          [] OTHER -> DecodeError("UnknownRequiredFeature"))

\* write_hash_map: the number of entries, then every key with its value, in
\* the order of the iterator of the HashMap, which is any order.  kind names
\* the type of the keys.
key_write(k, kind) == IF kind = "txo" THEN OutPoint_write(k) ELSE tx_write(k)

key_read(bytes, kind) == IF kind = "txo" THEN OutPoint_read(bytes) ELSE tx_read(bytes)

RECURSIVE entries_write(_, _, _)
entries_write(m, keys, kind) ==
    IF keys = {} THEN {<<>>}
    ELSE UNION {{key_write(k, kind) \o WatchState_write(m[k]) \o rest :
                    rest \in entries_write(m, keys \ {k}, kind)} : k \in keys}

write_hash_map(m, kind) ==
    {u64_write(Cardinality(DOMAIN m)) \o entries : entries \in entries_write(m, DOMAIN m, kind)}

RECURSIVE entries_read(_, _, _, _)
entries_read(bytes, n, kind, m) ==
    IF n = 0 THEN ReadOk(m, bytes)
    ELSE Then(key_read(bytes, kind), LAMBDA key :
         Then(WatchState_read(key.rest), LAMBDA value :
             entries_read(value.rest, n - 1, kind, Put(m, key.v, value.v))))

read_hash_map(bytes, kind) ==
    Then(u64_read(bytes), LAMBDA len : entries_read(len.rest, len.v, kind, EmptyMap))

\* The byte strings ChainMonitor::write can produce.
ChainMonitor_write(m) ==
    {watched_tx \o watched_txo \o u64_write(m.last_height) :
        watched_tx \in write_hash_map(m.watched_tx, "tx"),
        watched_txo \in write_hash_map(m.watched_txo, "txo")}

ChainMonitor_read(bytes) ==
    Then(read_hash_map(bytes, "tx"), LAMBDA watched_tx :
    Then(read_hash_map(watched_tx.rest, "txo"), LAMBDA watched_txo :
    Then(u64_read(watched_txo.rest), LAMBDA last_height :
        ReadOk([watched_tx |-> watched_tx.v, watched_txo |-> watched_txo.v,
                last_height |-> last_height.v], last_height.rest))))

(***************************************************************************)
(* The monitor under its operations, written to the store and read back    *)
(* when the manager is built again; persisted_monitor holds the bytes.     *)
(***************************************************************************)
SerTxs == {BufferTxOf("c1", InitialUpdateIdx)}

SerTxTypes ==
    {BufferTx, CollaborativeClose, SplitTx, SettleTx, Cet}
    \cup {SettleTx2(is_offer) : is_offer \in BOOLEAN}
    \cup {Revoked(InitialUpdateIdx, AdaptorSig("own", tx), revoked_tx_type = "Buffer",
                   revoked_tx_type) :
            tx \in SerTxs, revoked_tx_type \in {"Buffer", "Settle", "Split"}}

InitSer ==
    /\ contracts = [id \in ContractIds |-> NoContract]
    /\ channels = [id \in ChanIds |-> NoChannel]
    /\ chain_monitor = ChainMonitorNew(0)
    /\ persisted_monitor \in ChainMonitor_write(ChainMonitorNew(0))
    /\ chain = EmptyMap
    /\ pending = {}

Persist ==
    /\ persisted_monitor' \in ChainMonitor_write(chain_monitor)
    /\ UNCHANGED <<contracts, channels, chain_monitor, chain, pending>>

Restart ==
    LET stored == ChainMonitor_read(persisted_monitor)
    IN  /\ stored.ok
        /\ chain_monitor' = stored.v
        /\ UNCHANGED <<contracts, channels, persisted_monitor, chain, pending>>

NextSer ==
    \/ \E tx \in SerTxs, c \in SpecChans, tx_type \in SerTxTypes :
          Monitor(add_tx(chain_monitor, tx, ChannelInfo(c, tx_type)))
    \/ \E c \in SpecChans : Monitor(cleanup_channel(chain_monitor, c))
    \/ \E tx \in SerTxs : Monitor(confirm_tx(chain_monitor, tx))
    \/ \E tx \in SerTxs, spend \in {"cet", "punish"} :
          Monitor(confirm_txo(chain_monitor, OutPoint(tx, 0), Tx(tx.ch, spend, tx.idx)))
    \/ Persist
    \/ Restart

SpecSer == InitSer /\ [][NextSer]_vars

\* The tag each variant is written under.
TxTypeTags ==
    [Revoked |-> 0, BufferTx |-> 1, CollaborativeClose |-> 2, SplitTx |-> 3,
     SettleTx |-> 4, Cet |-> 5, SettleTx2 |-> 6]

WatchStateTags == [Registered |-> 0, Confirmed |-> 1]

RevokedTxTypeTags == [Buffer |-> 0, Settle |-> 1, Split |-> 2]

WatchStatesOf(m) ==
    {m.watched_tx[t] : t \in DOMAIN m.watched_tx}
    \cup {m.watched_txo[o] : o \in DOMAIN m.watched_txo}

Range(f) == {f[x] : x \in DOMAIN f}

\* C27: whatever ChainMonitor::write produces, ChainMonitor::read gives the
\* monitor back; TxType is written under the tags 0 = Revoked, 1 = BufferTx,
\* 2 = CollaborativeClose, 3 = SplitTx, 4 = SettleTx, 5 = Cet, 6 = SettleTx2,
\* WatchState under 0 = Registered, 1 = Confirmed and RevokedTxType under
\* 0 = Buffer, 1 = Settle, 2 = Split, and is read back from them; any other
\* tag fails with a decode error.
C27_MonitorRoundTrips ==
    /\ \A bytes \in ChainMonitor_write(chain_monitor) :
          LET r == ChainMonitor_read(bytes)
          IN  r.ok /\ r.v = chain_monitor /\ r.rest = <<>>
    /\ \A t \in SerTxTypes :
          LET bytes == TxType_write(t)
              r == TxType_read(bytes)
          IN  /\ Head(bytes) = TxTypeTags[t.tag]
              /\ r.ok /\ r.v = t /\ r.rest = <<>>
              /\ \A id \in Byte \ Range(TxTypeTags) :
                    LET unknown == TxType_read(<<id>> \o Tail(bytes))
                    IN  ~unknown.ok /\ unknown.err = "UnknownRequiredFeature"
    /\ \A ws \in WatchStatesOf(chain_monitor) :
          LET bytes == WatchState_write(ws)
              r == WatchState_read(bytes)
          IN  /\ Head(bytes) = WatchStateTags[ws.state]
              /\ r.ok /\ r.v = ws /\ r.rest = <<>>
              /\ \A id \in Byte \ Range(WatchStateTags) :
                    LET unknown == WatchState_read(<<id>> \o Tail(bytes))
                    IN  ~unknown.ok /\ unknown.err = "UnknownRequiredFeature"
    /\ \A t \in DOMAIN RevokedTxTypeTags :
          LET bytes == RevokedTxType_write(t)
              r == RevokedTxType_read(bytes)
          IN  /\ bytes = <<RevokedTxTypeTags[t]>>
              /\ r.ok /\ r.v = t /\ r.rest = <<>>
              /\ \A id \in Byte \ Range(RevokedTxTypeTags) :
                    LET unknown == RevokedTxType_read(<<id>>)
                    IN  ~unknown.ok /\ unknown.err = "UnknownRequiredFeature"

\* The manager is built again from the bytes of a monitor that watches a
\* revoked transaction seen in a block and a spent buffer output.
C27_Witness ==
    /\ persisted_monitor \in ChainMonitor_write(chain_monitor)
    /\ \E t \in DOMAIN chain_monitor.watched_tx :
          /\ chain_monitor.watched_tx[t].state = "Confirmed"
          /\ chain_monitor.watched_tx[t].channel_info.tx_type.tag = "Revoked"
    /\ \E o \in DOMAIN chain_monitor.watched_txo :
          chain_monitor.watched_txo[o].state = "Confirmed"

\* The calls of the body of the loop of process_watched_txs over the orders
\* of the Vec: the state each entry is met in.
RECURSIVE loop_visits(_, _, _)
loop_visits(s, watched_txs, env) ==
    IF watched_txs = {} THEN {}
    ELSE LET txs == {w \in watched_txs : ~w.txo}
             first == IF txs # {} THEN txs ELSE watched_txs
         IN  UNION {LET r == process_watched_tx(s, w.tx, w.channel_info, env)
                    IN  {[s |-> s, w |-> w]}
                        \cup IF r.res # "Ok" THEN {}
                             ELSE loop_visits(r.s, watched_txs \ {w}, env) :
                    w \in first}

\* The entries tagged Cet that a tick meets with their channel still Signed.
CetVisits(env) ==
    LET s == BeforeWatchedTx(State, env)
    IN  {v \in loop_visits(s, confirmed_txs(s.mon), env) :
            /\ v.w.channel_info.tx_type = Cet
            /\ v.s.channels[v.w.channel_info.channel_id].kind = "Signed"}

ClosingEnvs == TickEnvs({{}, AllIds}, {0})

legacy_monitor(m) ==
    [m EXCEPT !.watched_tx =
        [t \in DOMAIN m.watched_tx |->
            IF m.watched_tx[t].channel_info.tx_type.tag = "SettleTx2"
            THEN [m.watched_tx[t] EXCEPT !.channel_info.tx_type = SettleTx]
            ELSE m.watched_tx[t]]]

\* The node starts on a store of that age.
LoadLegacyMonitor ==
    /\ legacy_monitor(persisted_monitor) # persisted_monitor
    /\ chain_monitor' = legacy_monitor(persisted_monitor)
    /\ persisted_monitor' = legacy_monitor(persisted_monitor)
    /\ UNCHANGED <<contracts, channels, chain, pending>>

NextSettledClosing ==
    \/ \E c \in FreshChannelIds(SpecChans), k \in FreshContractIds, p \in CounterParties :
          Commit(offer_channel(State, c, k, p))
    \/ \E c \in SpecChans, p \in CounterParties :
          Commit(on_accept_channel(State, c, p, TRUE))
    \/ \E c \in SpecChans : CanUpdate(c) /\ Commit(settle_offer(State, c))
    \/ \E c \in SpecChans, p \in CounterParties :
          CanUpdate(c) /\ Commit(on_settle_offer(State, c, p))
    \/ \E c \in SpecChans : Commit(accept_settle_offer(State, c))
    \/ \E c \in SpecChans, p \in CounterParties :
          Commit(on_settle_accept(State, c, p, TRUE))
    \/ \E c \in SpecChans, p \in CounterParties :
          Commit(on_settle_confirm(State, c, p, TRUE))
    \/ \E c \in SpecChans, p \in CounterParties :
          Commit(on_settle_finalize(State, c, p, TRUE))
    \/ \E c \in SpecChans, bfail \in BOOLEAN, pick \in BOOLEAN :
          Commit(force_close_channel(State, c, bfail, pick))
    \/ \E env \in ClosingEnvs : \E r \in periodic_check(State, env) : Commit(r)
    \/ LoadLegacyMonitor
    \/ ConfirmTransaction
    \/ BuryTransaction
    \/ CounterPartyPublishes

SpecSettledClosing == Init /\ [][NextSettledClosing]_vars

\* The entries tagged SettleTx that a tick meets with their channel Signed.
LegacySettleVisits(env) ==
    LET s == BeforeWatchedTx(State, env)
    IN  {v \in loop_visits(s, confirmed_txs(s.mon), env) :
            /\ v.w.channel_info.tx_type = SettleTx
            /\ v.s.channels[v.w.channel_info.channel_id].kind = "Signed"}

\* The Revoked{Buffer} entries the monitor holds for a channel.
RevokedBufferEntries(m, c) ==
    {t \in DOMAIN m.watched_tx :
        /\ m.watched_tx[t].channel_info.channel_id = c
        /\ m.watched_tx[t].channel_info.tx_type.tag = "Revoked"
        /\ m.watched_tx[t].channel_info.tx_type.revoked_tx_type = "Buffer"}

\* try_finalize_settled_closing_channel waits for the lock of the settle
\* transaction, then stores the claim transaction and broadcasts it.
ClaimWaitsForLock ==
    \A c \in SignedChannelsIn(State, "SettledClosing"), env \in ClosingEnvs :
        LET s == State
            state == s.channels[c].state
            claim_tx == ClaimTxOf(state.settle_transaction)
            r == try_finalize_settled_closing_channel(s, c, env)
        IN  IF get_transaction_confirmations(s, state.settle_transaction) < CET_NSEQUENCE
            THEN r = Ok(s, "None", {})
            ELSE IF get_transaction_confirmations(s, claim_tx) < 1 /\ c \in env.bfail
            THEN r = Err(s, "BlockchainError")
            ELSE /\ r.res = "Ok"
                 /\ r.s.chain = IF claim_tx \in DOMAIN s.chain THEN s.chain
                                ELSE Put(s.chain, claim_tx, 0)
                 /\ r.s.channels[c] =
                       SettledClosingChannel(s.channels[c], claim_tx, state.is_initiator)
                 /\ r.s.mon = s.mon /\ r.s.contracts = s.contracts

\* try_confirm_claim_tx broadcasts the claim transaction again while it has
\* no confirmation, and closes the channel once it has one.
ClaimConfirms ==
    \A c \in {x \in ChanIds : channels[x].kind = "SettledClosing"}, env \in ClosingEnvs :
        LET s == State
            channel == s.channels[c]
            claim_tx == channel.claim_transaction
            confirmations == get_transaction_confirmations(s, claim_tx)
            r == try_confirm_claim_tx(s, c, env)
        IN  IF confirmations < 1
            THEN IF c \in env.bfail THEN r = Err(s, "BlockchainError")
                 ELSE /\ r.res = "Ok"
                      /\ claim_tx \in DOMAIN r.s.chain
                      /\ r.s.channels = s.channels /\ r.s.mon = s.mon
            ELSE /\ confirmations >= NB_CONFIRMATIONS
                 /\ r.res = "Ok"
                 /\ r.s.channels[c] = ClosedChannel(IF channel.is_closer THEN "Closed"
                                                    ELSE "CounterClosed",
                                                    channel, claim_tx)
                 /\ MonitorEntriesOf(r.s.mon, c) = {}

\* A confirmed settle transaction tagged SettleTx moves its channel to
\* SettledClosing exactly when the monitor holds a Revoked{Buffer} entry of
\* the channel, and with the is_offer of such an entry.
LegacySettleNeedsRevokedBuffer ==
    \A env \in ClosingEnvs : \A v \in LegacySettleVisits(env) :
        LET c == v.w.channel_info.channel_id
            entries == RevokedBufferEntries(v.s.mon, c)
            r == process_watched_tx(v.s, v.w.tx, v.w.channel_info, env)
        IN  IF entries = {} THEN r = Ok(v.s, "None", {})
            ELSE /\ r.res = "Ok"
                 /\ \E t \in entries :
                       r.s.channels[c] =
                          Swap(v.s.channels[c],
                               SettledClosing(v.w.tx,
                                   v.s.mon.watched_tx[t].channel_info.tx_type.is_offer,
                                   FALSE))
                 /\ r.s.mon = v.s.mon

\* C30: for a channel in SettledClosing the claim transaction is built and
\* broadcast only once the settle transaction has CET_NSEQUENCE
\* confirmations; from then on each call of try_confirm_claim_tx broadcasts
\* it again while it has no confirmation, and once it has one, and so at
\* least NB_CONFIRMATIONS, stores the channel as Closed if we initiated the
\* close and as CounterClosed otherwise and removes the monitor entries of the
\* channel.  A confirmed transaction tagged SettleTx moves its channel to
\* SettledClosing only if the monitor holds a Revoked{Buffer} entry of the
\* channel; otherwise the channel is left as it was.
C30_SettledClosingClaims ==
    /\ ClaimWaitsForLock
    /\ ClaimConfirms
    /\ LegacySettleNeedsRevokedBuffer

\* The counter party published the settle transaction of a channel whose
\* monitor came from an old store: the entry tagged SettleTx moved the channel
\* to SettledClosing, and after the lock we broadcast the claim transaction.
C30_Witness ==
    \E c \in SpecChans :
        /\ channels[c].kind = "SettledClosing"
        /\ ~channels[c].is_closer
        /\ channels[c].claim_transaction \in DOMAIN chain
        /\ \E t \in DOMAIN chain_monitor.watched_tx :
              /\ chain_monitor.watched_tx[t].channel_info = ChannelInfo(c, SettleTx)
              /\ ClaimTxOf(t) = channels[c].claim_transaction

(***************************************************************************)
(* The oracles.  A contract lists contract infos, each with a threshold    *)
(* and the announcements of its oracles; the manager knows some oracles by *)
(* their key, and an oracle answers for an event or fails.                 *)
(***************************************************************************)
MaxContractInfos == 2

MaxAnnouncements == 2

\* The keys of the map of oracles the manager was built with.
KnownOracles == {"o1"}

OraclePublicKeys == KnownOracles \cup {"o2"}

\* The announcement at position i (from 0) of the contract info at position j.
OracleAnnouncement(oracle_public_key, event_maturity_epoch, j, i) ==
    [oracle_public_key |-> oracle_public_key,
     oracle_event |-> [event_maturity_epoch |-> event_maturity_epoch,
                       event_id |-> <<j, i>>]]

SeqsUpTo(S, n) == UNION {[1..m -> S] : m \in 1..n}

ContractInfos(j) ==
    {[threshold |-> threshold,
      oracle_announcements |->
          [i \in DOMAIN shape |->
              OracleAnnouncement(shape[i][1], shape[i][2], j, i - 1)]] :
        threshold \in 1..MaxAnnouncements,
        shape \in SeqsUpTo(OraclePublicKeys \X (0..1), MaxAnnouncements)}

\* What oracle.get_attestation returns for an event it answers for.
OracleAttestation(event_id) == <<"attestation", event_id>>

EventIds == (1..MaxContractInfos) \X (0..(MaxAnnouncements - 1))

\* The clock and the events the oracles answer for at the time of a call.
OracleEnvs == [now : 0..1, answered : SUBSET EventIds]

\* iter().filter(..).enumerate() and iter().filter_map(..): the elements of a
\* sequence that pass, in order.
RECURSIVE Filter(_, _)
Filter(seq, keep) ==
    IF seq = <<>> THEN <<>>
    ELSE IF keep[Head(seq)] THEN <<Head(seq)>> \o Filter(Tail(seq), keep)
    ELSE Filter(Tail(seq), keep)

enumerate(seq) == [i \in DOMAIN seq |-> <<i - 1, seq[i]>>]

\* None as get_closable_contract_info returns it.
NoClosableInfo == [some |-> FALSE]

\* get_closable_contract_info as a loop that is content with enough matured
\* announcements.
RECURSIVE get_closable_contract_info_matured(_, _, _)
get_closable_contract_info_matured(contract, env, j) ==
    IF j > Len(contract.contract_info) \/ j > Len(contract.adaptor_infos) THEN NoClosableInfo
    ELSE LET contract_info == contract.contract_info[j]
             announcements == contract_info.oracle_announcements
             matured ==
                enumerate(Filter(announcements,
                                 [x \in {announcements[i] : i \in DOMAIN announcements} |->
                                     x.oracle_event.event_maturity_epoch <= env.now]))
             answers ==
                Filter(matured, [x \in {matured[i] : i \in DOMAIN matured} |->
                                    /\ x[2].oracle_public_key \in KnownOracles
                                    /\ x[2].oracle_event.event_id \in env.answered])
             attestations ==
                [i \in DOMAIN answers |->
                    <<answers[i][1], OracleAttestation(answers[i][2].oracle_event.event_id)>>]
         IN  IF Len(matured) >= contract_info.threshold
             THEN [some |-> TRUE, contract_info |-> j,
                   adaptor_info |-> contract.adaptor_infos[j],
                   attestations |-> attestations]
             ELSE get_closable_contract_info_matured(contract, env, j + 1)

\* The loop of get_closable_contract_info from the pair at position j on:
\* None, or the position of the contract info, the adaptor info and the
\* attestations with their indices.
RECURSIVE get_closable_contract_info(_, _, _)
get_closable_contract_info(contract, env, j) ==
    IF j > Len(contract.contract_info) \/ j > Len(contract.adaptor_infos) THEN NoClosableInfo
    ELSE LET contract_info == contract.contract_info[j]
             announcements == contract_info.oracle_announcements
             matured ==
                enumerate(Filter(announcements,
                                 [x \in {announcements[i] : i \in DOMAIN announcements} |->
                                     x.oracle_event.event_maturity_epoch <= env.now]))
             answers ==
                Filter(matured, [x \in {matured[i] : i \in DOMAIN matured} |->
                                    /\ x[2].oracle_public_key \in KnownOracles
                                    /\ x[2].oracle_event.event_id \in env.answered])
             attestations ==
                [i \in DOMAIN answers |->
                    <<answers[i][1], OracleAttestation(answers[i][2].oracle_event.event_id)>>]
         IN  IF /\ Len(matured) >= contract_info.threshold
                /\ Len(attestations) >= contract_info.threshold
             THEN [some |-> TRUE, contract_info |-> j,
                   adaptor_info |-> contract.adaptor_infos[j],
                   attestations |-> attestations]
             ELSE get_closable_contract_info(contract, env, j + 1)

\* The lists of n contract infos.
RECURSIVE ContractInfoLists(_)
ContractInfoLists(n) ==
    IF n = 0 THEN {<<>>}
    ELSE {Append(infos, info) : infos \in ContractInfoLists(n - 1), info \in ContractInfos(n)}

\* A signed contract with its contract infos and one adaptor info for each.
SignedContracts ==
    UNION {{[contract_info |-> infos,
             adaptor_infos |-> [j \in 1..n |-> <<"adaptor_info", j>>]]
            @@ Contract("Confirmed", "p1", "none", TRUE) :
               infos \in ContractInfoLists(n)} :
           n \in 1..MaxContractInfos}

InitOracles ==
    /\ contracts \in {[id \in ContractIds |-> IF id = "k1" THEN c ELSE NoContract] :
                        c \in SignedContracts}
    /\ channels = [id \in ChanIds |-> NoChannel]
    /\ chain_monitor = ChainMonitorNew(0)
    /\ persisted_monitor = ChainMonitorNew(0)
    /\ chain = EmptyMap
    /\ pending = {}

\* The result of check_confirmed_contract with the attestations it hands to
\* close_contract in the contract it stored.
with_attestations(r, id, closable) ==
    IF r.s.contracts[id].state \in {"PreClosed", "Closed"}
    THEN [r EXCEPT !.s.contracts[id].attestations =
                      {closable.attestations[i][2] : i \in DOMAIN closable.attestations}]
    ELSE r

\* check_confirmed_contract at a time and with the answers of the oracles.
CheckConfirmedContract(id) ==
    \E oracles \in OracleEnvs :
        LET closable == get_closable_contract_info(contracts[id], oracles, 1)
            env == [bfail |-> {}, attested |-> IF ~closable.some THEN {} ELSE {id},
                    now |-> oracles.now, pick |-> FALSE]
        IN  /\ contracts[id].state = "Confirmed"
            /\ Commit(with_attestations(check_confirmed_contract(State, id, env),
                                        id, closable))

CheckPreclosedContract(id) ==
    /\ contracts[id].state = "PreClosed"
    /\ Commit(Ok(check_preclosed_contract(State, id), "None", {}))

NextOracles ==
    \/ \E id \in SpecContracts : CheckConfirmedContract(id)
    \/ \E id \in SpecContracts : CheckPreclosedContract(id)

SpecOracles == InitOracles /\ [][NextOracles]_vars

\* The positions (from 1) of the matured announcements of a contract info, and
\* of those of them whose oracle is known and answers.
Matured(contract_info, env) ==
    {i \in DOMAIN contract_info.oracle_announcements :
        contract_info.oracle_announcements[i].oracle_event.event_maturity_epoch <= env.now}

Attested(contract_info, env) ==
    {i \in Matured(contract_info, env) :
        /\ contract_info.oracle_announcements[i].oracle_public_key \in KnownOracles
        /\ contract_info.oracle_announcements[i].oracle_event.event_id \in env.answered}

Qualifies(contract_info, env) ==
    /\ Cardinality(Matured(contract_info, env)) >= contract_info.threshold
    /\ Cardinality(Attested(contract_info, env)) >= contract_info.threshold

\* The Confirmed contracts of the store that list their contract infos.
ConfirmedWithInfos ==
    {k \in ContractIds : /\ contracts[k].state = "Confirmed"
                         /\ "contract_info" \in DOMAIN contracts[k]}

\* C31: get_closable_contract_info returns the first pair (contract info,
\* adaptor info) in declared order with at least threshold matured
\* announcements of which at least threshold have a known oracle that
\* answers, with one attestation for each of these and none for an oracle
\* that is unknown or fails; it returns None exactly when no pair qualifies.
C31_FirstClosableInfo ==
    \A k \in ConfirmedWithInfos, env \in OracleEnvs :
        LET contract == contracts[k]
            qualifying == {j \in DOMAIN contract.contract_info :
                              Qualifies(contract.contract_info[j], env)}
            r == get_closable_contract_info(contract, env, 1)
        IN  IF qualifying = {} THEN ~r.some
            ELSE /\ r.some
                 /\ r.contract_info \in qualifying
                 /\ \A j \in qualifying : r.contract_info <= j
                 /\ r.adaptor_info = contract.adaptor_infos[r.contract_info]
                 /\ {a[2] : a \in {r.attestations[i] : i \in DOMAIN r.attestations}}
                    = {OracleAttestation(
                          contract.contract_info[r.contract_info]
                              .oracle_announcements[i].oracle_event.event_id) :
                       i \in Attested(contract.contract_info[r.contract_info], env)}
                 /\ Len(r.attestations)
                    = Cardinality(Attested(contract.contract_info[r.contract_info], env))

\* A contract was closed with the attestations of its second contract info:
\* the first had matured announcements enough, of known oracles, and an
\* oracle that did not answer.
C31_Witness ==
    \E k \in SpecContracts :
        /\ contracts[k].state \in {"PreClosed", "Closed"}
        /\ Len(contracts[k].contract_info) = 2
        /\ LET first == contracts[k].contract_info[1]
           IN  \A i \in DOMAIN first.oracle_announcements :
                  /\ first.oracle_announcements[i].oracle_event.event_maturity_epoch = 0
                  /\ first.oracle_announcements[i].oracle_public_key \in KnownOracles
        /\ contracts[k].attestations # {}
        /\ \A a \in contracts[k].attestations : a[2][1] = 2

\* C39: every (index, attestation) pair that get_closable_contract_info
\* returns holds the attestation of the announcement at that index of the
\* oracle_announcements of the contract info returned.
C39_IndexIsPositionOfAnnouncement ==
    \A k \in ConfirmedWithInfos, env \in OracleEnvs :
        LET contract == contracts[k]
            r == get_closable_contract_info(contract, env, 1)
        IN  r.some
            => \A n \in DOMAIN r.attestations :
                  LET index == r.attestations[n][1]
                      announcements ==
                          contract.contract_info[r.contract_info].oracle_announcements
                  IN  /\ index + 1 \in DOMAIN announcements
                      /\ r.attestations[n][2]
                         = OracleAttestation(announcements[index + 1].oracle_event.event_id)

(***************************************************************************)
(* The operations of the chain monitor one by one, in every state the      *)
(* monitor reaches under SpecMonitor.                                      *)
(***************************************************************************)
\* The keys of a map of the monitor whose entry belongs to the channel.
KeysOf(map, channel_id) == {k \in DOMAIN map : map[k].channel_info.channel_id = channel_id}

\* The map but for the keys removed: the keys left hold the entries they held.
SameBut_keys(after, before, removed) ==
    /\ DOMAIN after = DOMAIN before \ removed
    /\ \A k \in DOMAIN after : after[k] = before[k]

\* C32: cleanup_channel(c) removes from watched_tx and watched_txo exactly
\* the entries whose channel id is c and leaves the entries of the other
\* channels and last_height as they were; remove_tx(txid) removes the
\* watched_tx entry of txid and leaves watched_txo, the other entries of
\* watched_tx and last_height as they were.
C32_RemovalsAreExact ==
    LET m == chain_monitor
    IN  /\ \A c \in ChanIds :
              LET after == cleanup_channel(m, c)
              IN  /\ SameBut_keys(after.watched_tx, m.watched_tx, KeysOf(m.watched_tx, c))
                  /\ SameBut_keys(after.watched_txo, m.watched_txo, KeysOf(m.watched_txo, c))
                  /\ after.last_height = m.last_height
        /\ \A txid \in MonitorTxs :
              LET after == remove_tx(m, txid)
              IN  /\ SameBut_keys(after.watched_tx, m.watched_tx, {txid})
                  /\ after.watched_txo = m.watched_txo
                  /\ after.last_height = m.last_height

\* The monitor watches a Confirmed transaction of one channel and an output
\* of another whose transaction it no longer watches.
C32_Witness ==
    \E t \in DOMAIN chain_monitor.watched_tx, o \in DOMAIN chain_monitor.watched_txo :
        /\ chain_monitor.watched_tx[t].state = "Confirmed"
        /\ chain_monitor.watched_tx[t].channel_info.channel_id
              # chain_monitor.watched_txo[o].channel_info.channel_id
        /\ o.txid \notin DOMAIN chain_monitor.watched_tx

\* The transactions that can be seen spending a watched output.
Spends(tx) == {Tx(tx.ch, spend, tx.idx) : spend \in {"cet", "punish"}}

\* A map after the confirmation of the entry at key with a transaction.
ConfirmedAt(after, before, key, transaction) ==
    /\ DOMAIN after = DOMAIN before
    /\ \A k \in DOMAIN before \ {key} : after[k] = before[k]
    /\ key \in DOMAIN before
       => /\ after[key].channel_info = before[key].channel_info
          /\ after[key].state = "Confirmed"
          /\ after[key].transaction = IF before[key].state = "Confirmed"
                                      THEN before[key].transaction
                                      ELSE transaction

\* C33: confirm_tx and confirm_txo turn a Registered entry into Confirmed
\* with the same channel_info and the transaction given, leave an entry that
\* is Confirmed as it is, with the transaction attached first, and change
\* nothing for a key that is not watched; confirmed_txs returns exactly the
\* (transaction, channel_info) pairs of the Confirmed entries of watched_tx
\* and watched_txo.
C33_ConfirmOnce ==
    LET m == chain_monitor
    IN  /\ \A tx \in MonitorTxs :
              LET after == confirm_tx(m, tx)
              IN  /\ ConfirmedAt(after.watched_tx, m.watched_tx, tx, tx)
                  /\ after.watched_txo = m.watched_txo
                  /\ after.last_height = m.last_height
        /\ \A tx \in MonitorTxs : \A spend \in Spends(tx) :
              LET after == confirm_txo(m, OutPoint(tx, 0), spend)
              IN  /\ ConfirmedAt(after.watched_txo, m.watched_txo, OutPoint(tx, 0), spend)
                  /\ after.watched_tx = m.watched_tx
                  /\ after.last_height = m.last_height
        /\ {<<w.tx, w.channel_info>> : w \in confirmed_txs(m)}
           = {<<m.watched_tx[t].transaction, m.watched_tx[t].channel_info>> :
                 t \in {u \in DOMAIN m.watched_tx : m.watched_tx[u].state = "Confirmed"}}
             \cup
             {<<m.watched_txo[o].transaction, m.watched_txo[o].channel_info>> :
                 o \in {u \in DOMAIN m.watched_txo : m.watched_txo[u].state = "Confirmed"}}
        /\ Cardinality(confirmed_txs(m))
           = Cardinality({u \in DOMAIN m.watched_tx : m.watched_tx[u].state = "Confirmed"})
             + Cardinality({u \in DOMAIN m.watched_txo : m.watched_txo[u].state = "Confirmed"})

\* An output is Confirmed with the punish transaction that spent it, beside
\* a Confirmed transaction, a Registered one and an output not watched.
C33_Witness ==
    /\ \E o \in DOMAIN chain_monitor.watched_txo :
          /\ chain_monitor.watched_txo[o].state = "Confirmed"
          /\ chain_monitor.watched_txo[o].transaction.kind = "punish"
    /\ \E t \in DOMAIN chain_monitor.watched_tx : chain_monitor.watched_tx[t].state = "Confirmed"
    /\ \E t \in DOMAIN chain_monitor.watched_tx : chain_monitor.watched_tx[t].state = "Registered"
    /\ \E t \in MonitorTxs : OutPoint(t, 0) \notin DOMAIN chain_monitor.watched_txo

\* ---------------------------------------------------------------------
\* did_we_offer_last_channel_settlement (chain_monitor.rs 152-187)
\* ---------------------------------------------------------------------

\* The answers did_we_offer_last_channel_settlement can give for a channel,
\* one for each entry the iteration of the map may reach first.
SettlementAnswers(m, channel_id) ==
    UNION {did_we_offer_last_channel_settlement(m, channel_id, pick) : pick \in BOOLEAN}

\* C34: did_we_offer_last_channel_settlement returns None exactly when the
\* monitor holds no Revoked{Buffer} entry of the channel, and otherwise one
\* answer that does not depend on the iteration order of the map: the
\* Revoked{Buffer} entries of one channel agree on is_offer.
C34_OneAnswerPerChannel ==
    \A c \in ChanIds :
        /\ \A pick \in BOOLEAN :
              did_we_offer_last_channel_settlement(chain_monitor, c, pick) = {}
                  <=> RevokedBufferEntries(chain_monitor, c) = {}
        /\ Cardinality(SettlementAnswers(chain_monitor, c)) <= 1

(***************************************************************************)
(* Sub channels (sub_channel_manager.rs): the update index of a sub        *)
(* channel over successive offers between the two nodes of an LN channel.  *)
(* channels holds the stored sub channel of each node, pending the         *)
(* messages on their way to each node in the order they were sent: the     *)
(* peers talk over one ordered connection.                                 *)
(***************************************************************************)

\* The most offers a node makes.
MaxSplits == 2

\* INITIAL_SPLIT_NUMBER is (1 << SPLIT_NUMBER_BITS) - 1.
SPLIT_NUMBER_BITS == 48

Nodes == {"alice", "bob"}

CounterNode(n) == CHOOSE m \in Nodes : m # n

\* A u64 as four limbs of 16 bits, the least significant first.
Limbs == 1..4

LimbMax == 2^16 - 1

INITIAL_SPLIT_NUMBER ==
    [i \in Limbs |->
        IF 16 * i <= SPLIT_NUMBER_BITS THEN LimbMax
        ELSE IF 16 * (i - 1) >= SPLIT_NUMBER_BITS THEN 0
        ELSE 2^(SPLIT_NUMBER_BITS - 16 * (i - 1)) - 1]

\* update_idx -= 1 on a u64, with the borrow; zero wraps as in a release
\* build.
sub_one(x) ==
    IF \A i \in Limbs : x[i] = 0 THEN [i \in Limbs |-> LimbMax]
    ELSE LET k == CHOOSE i \in Limbs : x[i] > 0 /\ \A j \in 1..(i - 1) : x[j] = 0
         IN  [i \in Limbs |-> IF i < k THEN LimbMax
                              ELSE IF i = k THEN x[i] - 1 ELSE x[i]]

NoSubChannel == [some |-> FALSE]

SubChannel(counter_party, is_offer, update_idx, state) ==
    [some |-> TRUE, counter_party |-> counter_party, is_offer |-> is_offer,
     update_idx |-> update_idx, state |-> state]

NoMessage == "None"

\* What a call of the sub channel manager leaves in the store and returns.
SubOk(sub_channel, msg) == [ok |-> TRUE, err |-> "Ok", sub_channel |-> sub_channel, msg |-> msg]

SubErr(sub_channel, err) ==
    [ok |-> FALSE, err |-> err, sub_channel |-> sub_channel, msg |-> NoMessage]

\* offer_sub_channel: known is whether the LN channel manager has the
\* channel, valid whether the amounts, the wallet and the channel updater
\* accept the offer.  The stored sub channel is rewritten only at the end.
offer_sub_channel(stored, counter_party, known, valid) ==
    IF ~known THEN SubErr(stored, "InvalidParameters")
    ELSE IF stored.some /\ stored.state # "OffChainClosed"
    THEN SubErr(stored, "InvalidState")
    ELSE IF ~valid THEN SubErr(stored, "InvalidParameters")
    ELSE IF stored.some
    THEN SubOk([stored EXCEPT !.is_offer = TRUE, !.update_idx = sub_one(@),
                              !.state = "Offered"], "Offer")
    ELSE SubOk(SubChannel(counter_party, TRUE, INITIAL_SPLIT_NUMBER, "Offered"), "Offer")

\* on_subchannel_offer storing the index of the closed sub channel again.
on_subchannel_offer_same_idx(stored, counter_party, known, valid) ==
    IF ~known THEN SubErr(stored, "InvalidParameters")
    ELSE IF stored.some /\ stored.state # "OffChainClosed"
    THEN SubErr(stored, "InvalidState")
    ELSE IF ~valid THEN SubErr(stored, "InvalidParameters")
    ELSE IF stored.some
    THEN SubOk([stored EXCEPT !.is_offer = FALSE, !.state = "Offered"], NoMessage)
    ELSE SubOk(SubChannel(counter_party, FALSE, INITIAL_SPLIT_NUMBER, "Offered"),
               NoMessage)

\* on_subchannel_offer
on_subchannel_offer(stored, counter_party, known, valid) ==
    IF ~known THEN SubErr(stored, "InvalidParameters")
    ELSE IF stored.some /\ stored.state # "OffChainClosed"
    THEN SubErr(stored, "InvalidState")
    ELSE IF ~valid THEN SubErr(stored, "InvalidParameters")
    ELSE IF stored.some
    THEN SubOk([stored EXCEPT !.is_offer = FALSE, !.update_idx = sub_one(@),
                              !.state = "Offered"], NoMessage)
    ELSE SubOk(SubChannel(counter_party, FALSE, INITIAL_SPLIT_NUMBER, "Offered"),
               NoMessage)

\* get_sub_channel_in_state!: peer is the peer id given, or NoMessage for
\* none.
get_sub_channel_in_state(stored, state, peer) ==
    IF ~stored.some THEN "InvalidParameters"
    ELSE IF peer # NoMessage /\ stored.counter_party # peer THEN "InvalidParameters"
    ELSE IF stored.state # state THEN "InvalidState"
    ELSE "Ok"

\* The other operations on a sub channel: the state each expects, the state
\* it stores, the message it answers to (api for a local call) and the
\* message it sends.
SubChannelSteps ==
    { [name |-> "accept_sub_channel", on |-> "api", expected |-> "Offered",
       next |-> "Accepted", msg |-> "Accept"],
      [name |-> "on_subchannel_accept", on |-> "Accept", expected |-> "Offered",
       next |-> "Signed", msg |-> "Confirm"],
      [name |-> "on_subchannel_confirm", on |-> "Confirm", expected |-> "Accepted",
       next |-> "Signed", msg |-> "Finalize"],
      [name |-> "on_sub_channel_finalize", on |-> "Finalize", expected |-> "Signed",
       next |-> "Signed", msg |-> NoMessage],
      [name |-> "initiate_force_close_sub_channel", on |-> "api", expected |-> "Signed",
       next |-> "Closing", msg |-> NoMessage],
      [name |-> "finalize_force_close_sub_channels", on |-> "api", expected |-> "Closing",
       next |-> "OnChainClosed", msg |-> NoMessage],
      [name |-> "offer_subchannel_close", on |-> "api", expected |-> "Signed",
       next |-> "CloseOffered", msg |-> "CloseOffer"],
      [name |-> "accept_subchannel_close_offer", on |-> "api", expected |-> "CloseOffered",
       next |-> "CloseAccepted", msg |-> "CloseAccept"],
      [name |-> "on_sub_channel_close_offer", on |-> "CloseOffer", expected |-> "Signed",
       next |-> "CloseOffered", msg |-> NoMessage],
      [name |-> "on_sub_channel_close_accept", on |-> "CloseAccept",
       expected |-> "CloseOffered", next |-> "CloseConfirmed", msg |-> "CloseConfirm"],
      [name |-> "on_sub_channel_close_confirm", on |-> "CloseConfirm",
       expected |-> "CloseAccepted", next |-> "OffChainClosed", msg |-> "CloseFinalize"],
      [name |-> "on_sub_channel_close_finalize", on |-> "CloseFinalize",
       expected |-> "CloseConfirmed", next |-> "OffChainClosed", msg |-> NoMessage] }

\* One of the other operations: the sub channel in the expected state, the
\* work of the operation (valid), the new state stored.
sub_channel_step(stored, step, peer, valid) ==
    LET g == get_sub_channel_in_state(stored, step.expected, peer)
    IN  IF g # "Ok" THEN SubErr(stored, g)
        ELSE IF ~valid THEN SubErr(stored, "InvalidParameters")
        ELSE SubOk([stored EXCEPT !.state = step.next], step.msg)

SubMessage(to, type) == [to |-> to, from |-> CounterNode(to), type |-> type]

\* The store of node n and the messages after a call r of node n that
\* consumed the first taken messages sent to it.
CommitSub(n, r, taken) ==
    /\ channels' = [channels EXCEPT ![n] = r.sub_channel]
    /\ pending' = [m \in Nodes |->
                      IF m = n THEN SubSeq(pending[n], taken + 1, Len(pending[n]))
                      ELSE IF r.msg = NoMessage THEN pending[m]
                      ELSE Append(pending[m], SubMessage(m, r.msg))]
    /\ UNCHANGED <<contracts, chain_monitor, persisted_monitor, chain>>

\* How many offers below INITIAL_SPLIT_NUMBER an index is.
SplitsBelowInitial(update_idx) == INITIAL_SPLIT_NUMBER[1] - update_idx[1]

InitSubChannel ==
    /\ contracts = [id \in ContractIds |-> NoContract]
    /\ channels = [n \in Nodes |-> NoSubChannel]
    /\ chain_monitor = ChainMonitorNew(0)
    /\ persisted_monitor = ChainMonitorNew(0)
    /\ chain = EmptyMap
    /\ pending = [n \in Nodes |-> <<>>]

\* The message node n handles next, if there is one.
Received(n) == IF pending[n] = <<>> THEN {} ELSE {Head(pending[n])}

CanSplit(n) ==
    channels[n].some => SplitsBelowInitial(channels[n].update_idx) < MaxSplits

NextSubChannel ==
    \/ \E n \in Nodes, known \in BOOLEAN, valid \in BOOLEAN :
          /\ CanSplit(n)
          /\ CommitSub(n, offer_sub_channel(channels[n], CounterNode(n), known, valid), 0)
    \/ \E n \in Nodes, known \in BOOLEAN, valid \in BOOLEAN : \E m \in Received(n) :
          /\ m.type = "Offer"
          /\ CommitSub(n, on_subchannel_offer(channels[n], m.from, known, valid), 1)
    \/ \E n \in Nodes, valid \in BOOLEAN :
          \E step \in {x \in SubChannelSteps : x.on = "api"} :
              CommitSub(n, sub_channel_step(channels[n], step, NoMessage, valid), 0)
    \/ \E n \in Nodes, valid \in BOOLEAN : \E m \in Received(n) :
          \E step \in {x \in SubChannelSteps : x.on = m.type} :
              CommitSub(n, sub_channel_step(channels[n], step, m.from, valid), 1)

SpecSubChannel == InitSubChannel /\ [][NextSubChannel]_vars

\* The calls that offer a sub channel at node n in the current state: the
\* local offer and the receipt of an offer, for every outcome of the checks
\* along the way.
OfferCalls(n) ==
    {[known |-> known,
      r |-> offer_sub_channel(channels[n], CounterNode(n), known, valid)] :
          known \in BOOLEAN, valid \in BOOLEAN}
    \cup
    {[known |-> known,
      r |-> on_subchannel_offer(channels[n], CounterNode(n), known, valid)] :
          known \in BOOLEAN, valid \in BOOLEAN}

\* C35: an offer made or received without a stored sub channel stores
\* update_idx = INITIAL_SPLIT_NUMBER = 2^48 - 1; one made or received over
\* an OffChainClosed sub channel stores the index one below the stored one;
\* one made or received over a sub channel in any other state returns
\* InvalidState (on a known LN channel) and changes nothing; and a node that
\* takes the offer of its peer holds the same index as the peer afterwards.
C35_UpdateIdxPerOffer ==
    /\ INITIAL_SPLIT_NUMBER = <<65535, 65535, 65535, 0>>
    /\ \A n \in Nodes : \A call \in OfferCalls(n) :
          LET stored == channels[n]
              r == call.r
          IN  /\ ~stored.some /\ r.ok
                    => r.sub_channel.update_idx = INITIAL_SPLIT_NUMBER
              /\ stored.some /\ stored.state = "OffChainClosed" /\ r.ok
                    => /\ SplitsBelowInitial(r.sub_channel.update_idx)
                              = SplitsBelowInitial(stored.update_idx) + 1
                       /\ \A i \in Limbs \ {1} :
                              r.sub_channel.update_idx[i] = stored.update_idx[i]
              /\ stored.some /\ stored.state # "OffChainClosed"
                    => /\ ~r.ok
                       /\ call.known => r.err = "InvalidState"
                       /\ r.sub_channel = stored
                       /\ r.msg = NoMessage
              /\ ~r.ok => r.sub_channel = stored
    /\ \A n \in Nodes, valid \in BOOLEAN : \A m \in Received(n) :
          LET r == on_subchannel_offer(channels[n], m.from, TRUE, valid)
          IN  m.type = "Offer" /\ r.ok
                  => r.sub_channel.update_idx = channels[m.from].update_idx

\* Both nodes hold a sub channel offered anew over an OffChainClosed one,
\* the second of them by the offer of the first.
C35_Witness ==
    /\ \A n \in Nodes :
          /\ channels[n].some
          /\ channels[n].state = "Offered"
          /\ SplitsBelowInitial(channels[n].update_idx) = 1
    /\ channels["alice"].is_offer
    /\ ~channels["bob"].is_offer
    /\ \A n \in Nodes : pending[n] = <<>>

\* ---------------------------------------------------------------------
\* Revoked entries of an open channel
\* ---------------------------------------------------------------------

\* The txids the monitor m watches for channel c with a Revoked tag.
RevokedEntries(m, c) ==
    {t \in DOMAIN m.watched_tx :
        /\ m.watched_tx[t].channel_info.channel_id = c
        /\ m.watched_tx[t].channel_info.tx_type.tag = "Revoked"}

\* C36: a txid watched with tag Revoked for a channel stays watched, with
\* the same tag, over every step after which the channel is stored as
\* Signed (whatever its sub-state): the Revoked entries of a channel go only
\* in the step that stores it in a terminal state.
C36_RevokedStayWatched ==
    [][\A c \in ChanIds :
          channels[c].kind = "Signed" /\ channels'[c].kind = "Signed"
              => \A t \in RevokedEntries(chain_monitor, c) :
                    /\ t \in RevokedEntries(chain_monitor', c)
                    /\ chain_monitor'.watched_tx[t].channel_info
                          = chain_monitor.watched_tx[t].channel_info]_vars

\* ---------------------------------------------------------------------
\* Ticks after the reactor moved a channel to Closing or SettledClosing
\* ---------------------------------------------------------------------

\* The channels the reactor moved to Closing or SettledClosing when the
\* buffer or settle transaction of the counter party was reported confirmed.
MovedByReactor(s) ==
    {c \in DOMAIN s.channels :
        /\ s.channels[c].kind = "Signed"
        /\ s.channels[c].state.st \in {"Closing", "SettledClosing"}
        /\ ~s.channels[c].state.is_initiator}

\* C37: a tick over a channel the reactor moved to Closing or SettledClosing
\* that finds it still closing leaves the stored channel as it was: state,
\* is_initiator and roll_back_state are those of the first tick.
C37_LaterTicksChangeNothing ==
    \A c \in MovedByReactor(State), env \in TickEnvs({{}}, {0}) :
        \A r \in periodic_check(State, env) :
            c \in MovedByReactor(r.s) => r.s.channels[c] = channels[c]

(***************************************************************************)
(* The chain-monitor mutex over the calls of the manager and of the sub    *)
(* channel manager.  A thread that can take its next step takes it in the  *)
(* end: the store, the blockchain and the wallet answer, and none of them  *)
(* takes the mutex.  Mutex::lock blocks while any thread, the caller       *)
(* included, holds the guard.                                              *)
(***************************************************************************)
MutexCalls ==
    Calls \cup {"try_confirm_claim_tx", "process_watched_txs_settle_tx",
                "finalize_force_close_sub_channels"}

StartMutexCall ==
    \E thread \in Threads, call \in MutexCalls :
        /\ \A t \in pending : t.thread # thread
        /\ pending' = pending \cup {[thread |-> thread, call |-> call, pc |-> 1,
                                     locked |-> FALSE]}
        /\ UNCHANGED <<contracts, channels, chain_monitor, persisted_monitor, chain>>

\* The next step of the call a thread runs.
ThreadStep(thread) ==
    \E t \in pending :
        /\ t.thread = thread
        /\ CASE StepAt(t)[1] = "lock" -> (\A o \in pending : ~o.locked) /\ TakeStep(t, TRUE)
             [] StepAt(t)[1] = "unlock" -> TakeStep(t, FALSE)
             [] OTHER -> TakeStep(t, t.locked)

NextMutex == StartMutexCall \/ \E thread \in Threads : ThreadStep(thread)

SpecMutex ==
    Init /\ [][NextMutex]_vars /\ \A thread \in Threads : WF_vars(ThreadStep(thread))

\* C38: no thread comes to acquire the chain-monitor mutex while it holds
\* it, and no thread waits for the store, the blockchain, an oracle or a
\* broadcast while it holds it.
C38_NoWaitUnderMonitorLock ==
    \A t \in pending :
        t.locked => StepAt(t)[1] # "lock" /\ StepAt(t)[1] \notin Blocking

\* What a thread waits for while it holds the mutex.
WaitsUnderLock ==
    {<<"store", "persist_chain_monitor">>, <<"store", "upsert_sub_channel">>}

\* C38, amended: no thread comes to acquire the chain-monitor mutex while it
\* holds it, and the only resource a thread waits for while holding it is
\* the store, in persist_chain_monitor and in the upsert_sub_channel of
\* finalize_force_close_sub_channels; hence with threads running the calls
\* side by side every acquisition of the mutex is followed by its release.
C38_MutexIsReleased ==
    /\ [](\A t \in pending :
            t.locked => /\ StepAt(t)[1] # "lock"
                        /\ StepAt(t)[1] \in Blocking => StepAt(t) \in WaitsUnderLock)
    /\ \A thread \in Threads :
          (\E t \in pending : t.thread = thread /\ t.locked)
              ~> (\A t \in pending : t.thread = thread => ~t.locked)

\* A thread holds the mutex over the upsert_sub_channel of
\* finalize_force_close_sub_channels while the other is about to take it.
C38_Witness ==
    \E t \in pending, o \in pending :
        /\ t.locked /\ StepAt(t) = <<"store", "upsert_sub_channel">>
        /\ ~o.locked /\ StepAt(o)[1] = "lock"

(***************************************************************************)
(* check_transaction_confirmations beside the other threads of the node.   *)
(* pending holds the watched txids and outpoints the call read under the   *)
(* mutex and has not asked the blockchain about yet; each confirmation is  *)
(* applied under the mutex taken anew, and the calls of other threads run  *)
(* in between.                                                             *)
(***************************************************************************)
TerminalKinds == {"Closed", "CounterClosed", "CollaborativelyClosed", "ClosedPunished"}

TakeSnapshot ==
    /\ pending = {}
    /\ pending' = {[txs |-> get_watched_txs(chain_monitor),
                    txos |-> get_watched_txos(chain_monitor)]}
    /\ UNCHANGED <<contracts, channels, chain_monitor, persisted_monitor, chain>>

\* One turn of the loop over the txids read.
ApplyTxConfirmation ==
    \E snapshot \in pending : \E txid \in snapshot.txs :
        /\ chain_monitor' = check_tx_confirmations(State, txid).mon
        /\ pending' = {[snapshot EXCEPT !.txs = @ \ {txid}]}
        /\ UNCHANGED <<contracts, channels, persisted_monitor, chain>>

\* One turn of the loop over the outpoints read, which follows the first.
ApplyTxoConfirmation ==
    \E snapshot \in pending : \E txo \in snapshot.txos :
        /\ snapshot.txs = {}
        /\ chain_monitor' = check_txo_confirmations(State, txo).mon
        /\ pending' = {[snapshot EXCEPT !.txos = @ \ {txo}]}
        /\ UNCHANGED <<contracts, channels, persisted_monitor, chain>>

\* periodic_check from check_signed_contracts on.
after_confirmations(s, env) ==
    LET s2 == check_signed_contracts(s, env)
        s3 == check_confirmed_contracts(s2, env)
        s4 == check_preclosed_contracts(s3, env)
    IN  {Result(r.s, r.res, "None", DOMAIN r.s.chain \ DOMAIN s.chain) :
            r \in channel_checks(s4, env)}

FinishTick ==
    \E snapshot \in pending, env \in TickEnvs({{}}, {0}) :
        /\ snapshot.txs = {} /\ snapshot.txos = {}
        /\ \E r \in after_confirmations(State, env) :
              /\ contracts' = r.s.contracts
              /\ channels' = r.s.channels
              /\ chain_monitor' = r.s.mon
              /\ persisted_monitor' = r.s.pmon
              /\ chain' = r.s.chain
              /\ pending' = {}

NextSnapshot ==
    \/ \E c \in FreshChannelIds(SpecChans), k \in FreshContractIds, p \in CounterParties :
          Commit(offer_channel(State, c, k, p))
    \/ \E c \in SpecChans, p \in CounterParties : Commit(on_accept_channel(State, c, p, TRUE))
    \/ \E c \in SpecChans : CanUpdate(c) /\ Commit(settle_offer(State, c))
    \/ \E c \in SpecChans, p \in CounterParties : Commit(on_settle_accept(State, c, p, TRUE))
    \/ \E c \in SpecChans, p \in CounterParties : Commit(on_settle_finalize(State, c, p, TRUE))
    \/ \E c \in SpecChans, pick \in BOOLEAN :
          Commit(force_close_channel(State, c, FALSE, pick))
    \/ \E env \in TickEnvs({{}}, {0}) : \E r \in periodic_check(State, env) : Commit(r)
    \/ TakeSnapshot
    \/ ApplyTxConfirmation
    \/ ApplyTxoConfirmation
    \/ FinishTick
    \/ ConfirmTransaction
    \/ BuryTransaction
    \/ CounterPartyPublishes

SpecSnapshot == Init /\ [][NextSnapshot]_vars

\* The state after the confirmations of everything left in the snapshot.
AfterSnapshot(s, snapshot) ==
    ForEach("check_txo_confirmations",
            ForEach("check_tx_confirmations", s, snapshot.txs, [now |-> 0]),
            snapshot.txos, [now |-> 0])

SameKeys(after, before) ==
    /\ get_watched_txs(after) = get_watched_txs(before)
    /\ get_watched_txos(after) = get_watched_txos(before)

\* C40: applying a confirmation for a txid or an outpoint read earlier adds
\* no key to the chain monitor, whatever was removed since the snapshot (an
\* entry removed by cleanup_channel or remove_tx does not come back), and
\* the rest of the tick changes nothing for a channel that is stored in a
\* terminal state: the channel stays as stored and gets no monitor entry it
\* does not have.
C40_StaleConfirmationsAddNothing ==
    \A snapshot \in pending :
        /\ \A txid \in snapshot.txs :
              SameKeys(check_tx_confirmations(State, txid).mon, chain_monitor)
        /\ \A txo \in snapshot.txos :
              SameKeys(check_txo_confirmations(State, txo).mon, chain_monitor)
        /\ SameKeys(AfterSnapshot(State, snapshot).mon, chain_monitor)
        /\ \A env \in TickEnvs({{}}, {0}) :
              \A r \in after_confirmations(AfterSnapshot(State, snapshot), env) :
                  \A c \in ChanIds :
                      channels[c].kind \in TerminalKinds
                          => /\ r.s.channels[c] = channels[c]
                             /\ MonitorEntriesOf(r.s.mon, c)
                                   \subseteq MonitorEntriesOf(chain_monitor, c)

\* The snapshot holds a txid and an outpoint of a channel, confirmed on
\* chain, that has been stored in a terminal state and cleaned from the
\* monitor since.
C40_Witness ==
    \E snapshot \in pending, c \in ChanIds :
        /\ channels[c].kind \in TerminalKinds
        /\ MonitorEntriesOf(chain_monitor, c) = {}
        /\ \E txid \in snapshot.txs :
              /\ txid.ch = c
              /\ get_transaction_confirmations(State, txid) > 0
        /\ \E txo \in snapshot.txos : txo.txid.ch = c /\ get_txo_confirmations(State, txo) # {}

====
